---- MODULE Spec2Model ----
(***************************************************************************)
(* Model of the sales chatbot's adaptive strategy learner                  *)
(* (reinforcement_learning.py), of the routes that drive it (routes.py)    *)
(* and of the tables they persist (models.py).                             *)
(*                                                                         *)
(* Python floats are modelled as exact rationals <<numerator,denominator>> *)
(* kept in lowest terms, so that success_count / total_attempts and the    *)
(* scores built from it are compared exactly.  Timestamps (last_updated,   *)
(* timestamp) are not modelled: table order stands for timestamp order.    *)
(***************************************************************************)
EXTENDS Integers, Sequences, FiniteSets, TLC

VARIABLES
    learner,        \* routes.py:16  "none" until ReinforcementLearner() was built
    ledger,         \* table AILearningData: sequence of rows, in primary-key order
    customers,      \* table Customer: sequence of rows, index = Customer.id
    conversations,  \* table Conversation: sequence of rows, in timestamp order
    sales,          \* table Sale: sequence of customer ids
    webhooks,       \* table WhatsAppWebhook, and the answer of the last POST /webhook
    last,           \* the call that ended last, with its arguments and result
    workers,        \* concurrent requests on the ledger, each with its own session
    environ,        \* ai_agent.py:17  TRUE when GOOGLE_API_KEY is set and not empty
    ai_agent,       \* routes.py:15  "none" until AIAgent() was built
    products,       \* table Product: sequence of rows, index = Product.id
    lead,           \* the Customer row the funnel is driven for
    turn            \* the generate_response call that ended last

learnerVars ==
    <<learner, ledger, customers, conversations, sales, webhooks, last, workers>>

funnelVars == <<environ, ai_agent, products, lead, turn>>

vars == <<learnerVars, funnelVars>>

(***************************************************************************)
(* Bounds of the model.                                                    *)
(***************************************************************************)
MaxAttempts == 2        \* attempts recorded on top of the initial ones
MaxSuccesses == 2       \* successes recorded over all strategies, and sales
MaxConversations == 2   \* rows of the Conversation table
NumWorkers == 3         \* concurrent requests in the concurrent specification

(***************************************************************************)
(* Exact rational arithmetic for the float columns.                        *)
(***************************************************************************)
Abs(x) == IF x < 0 THEN -x ELSE x

RECURSIVE Gcd(_, _)
Gcd(a, b) == IF b = 0 THEN a ELSE Gcd(b, a % b)

\* n / d in lowest terms, d > 0
Frac(n, d) ==
    LET g == Gcd(Abs(n), d)
    IN  IF n = 0 THEN <<0, 1>> ELSE <<n \div g, d \div g>>

RAdd(a, b) == Frac(a[1] * b[2] + b[1] * a[2], a[2] * b[2])
RSub(a, b) == Frac(a[1] * b[2] - b[1] * a[2], a[2] * b[2])
RMul(a, b) == Frac(a[1] * b[1], a[2] * b[2])
RLe(a, b) == a[1] * b[2] <= b[1] * a[2]
RLt(a, b) == a[1] * b[2] < b[1] * a[2]
RAbs(a) == <<Abs(a[1]), a[2]>>
RMin(a, b) == IF RLe(a, b) THEN a ELSE b
RMax(a, b) == IF RLe(b, a) THEN a ELSE b
RZero == <<0, 1>>
ROne == <<1, 1>>

(***************************************************************************)
(* reinforcement_learning.py: the fixed strategy set and the inputs.       *)
(***************************************************************************)
strategies == <<"consultivo", "escassez", "emocional", "racional">>

StrategySet == {strategies[i] : i \in 1..Len(strategies)}

\* names a caller passes to record_success / record_failure: the default
\* strategy, another one, and a name that has no record
StrategyArgs == {"consultivo", "escassez", "desconhecida"}

\* customer_analysis['sentiment'] and Conversation.sentiment_score values
Sentiments == {<<0, 1>>, <<1, 2>>}

\* customer_analysis['keywords'] values
KeywordSets == {{}, {"preco"}}

\* whatsapp numbers that write in
Phones == {"5511900000001"}

\* customer ids a caller may pass: none (0), the first customer, an unknown one
CustomerArgs == {0, 1, 2}

NoStrategy == "-"

\* models.py:84-89: no POST /webhook was received yet
NoWebhooks == [records |-> <<>>, answer |-> "none"]

(***************************************************************************)
(* Table lookups.                                                          *)
(***************************************************************************)
\* AILearningData.query.filter_by(strategy_name=s).first(): index of the
\* first row of that name, 0 when there is none.
FirstRow(l, s) ==
    IF \E i \in 1..Len(l) : l[i].strategy_name = s
    THEN CHOOSE i \in 1..Len(l) :
            /\ l[i].strategy_name = s
            /\ \A j \in 1..(i - 1) : l[j].strategy_name # s
    ELSE 0

RECURSIVE SumAttempts(_)
SumAttempts(l) ==
    IF l = <<>> THEN 0 ELSE Head(l).total_attempts + SumAttempts(Tail(l))

RECURSIVE SumSuccesses(_)
SumSuccesses(l) ==
    IF l = <<>> THEN 0 ELSE Head(l).success_count + SumSuccesses(Tail(l))

(***************************************************************************)
(* reinforcement_learning.py: ReinforcementLearner.                        *)
(* Every method is an operator from the tables it reads to the ledger it   *)
(* leaves, its return value and what it did to the database session        *)
(* ("commit", "rollback" or "none"), since the session is shared with the  *)
(* route that calls it.  fault names the step at which storage fails       *)
(* during the call ("none" when it does not).                              *)
(***************************************************************************)
Faults == {"none", "load", "similarity", "choose", "write"}

\* a new row that keeps the column default total_attempts = 0
NewRowUncounted(s) ==
    [strategy_name |-> s,
     success_count |-> 0,
     total_attempts |-> 0,
     success_rate |-> <<1, 4>>,
     context_keywords |-> {},
     customer_sentiment |-> RZero]

\* reinforcement_learning.py:29-37
NewRow(s) ==
    [strategy_name |-> s,
     success_count |-> 0,
     total_attempts |-> 1,
     success_rate |-> <<1, 4>>,
     context_keywords |-> {},
     customer_sentiment |-> RZero]

RECURSIVE AddMissing(_, _)
AddMissing(l, i) ==
    IF i > Len(strategies) THEN l
    ELSE AddMissing(IF FirstRow(l, strategies[i]) = 0
                    THEN Append(l, NewRow(strategies[i]))
                    ELSE l,
                    i + 1)

RECURSIVE AddAll(_, _)
AddAll(l, i) ==
    IF i > Len(strategies) THEN l
    ELSE AddAll(Append(l, NewRow(strategies[i])), i + 1)

\* the initialisation without its existence check
_initialize_strategies_unchecked(l, fault) ==
    IF fault \in {"load", "write"}
    THEN [ledger |-> l, session |-> "rollback"]
    ELSE [ledger |-> AddAll(l, 1), session |-> "commit"]

_initialize_strategies(l, fault) ==
    IF fault \in {"load", "write"}
    THEN [ledger |-> l, session |-> "rollback"]
    ELSE [ledger |-> AddMissing(l, 1), session |-> "commit"]

\* the attempt update counting twice
_update_attempt_count_twice(l, strategy, fault) ==
    LET i == FirstRow(l, strategy)
    IN  IF fault = "write" THEN [ledger |-> l, session |-> "rollback"]
        ELSE IF i = 0 THEN [ledger |-> l, session |-> "none"]
        ELSE [ledger |-> [l EXCEPT ![i].total_attempts = @ + 2],
              session |-> "commit"]

_update_attempt_count(l, strategy, fault) ==
    LET i == FirstRow(l, strategy)
    IN  IF fault = "write" THEN [ledger |-> l, session |-> "rollback"]
        ELSE IF i = 0 THEN [ledger |-> l, session |-> "none"]
        ELSE [ledger |-> [l EXCEPT ![i].total_attempts = @ + 1],
              session |-> "commit"]

_calculate_context_similarity(row, analysis, fault) ==
    LET common == row.context_keywords \cap analysis.keywords
        keyword_bonus ==
            IF row.context_keywords # {} /\ analysis.keywords # {}
            THEN Frac(2 * Cardinality(common), 100)
            ELSE RZero
        sentiment_diff == RAbs(RSub(row.customer_sentiment, analysis.sentiment))
        sentiment_bonus ==
            IF row.customer_sentiment # RZero
            THEN RMax(RZero, RMul(RSub(ROne, sentiment_diff), <<1, 20>>))
            ELSE RZero
    IN  IF fault = "similarity" THEN RZero
        ELSE RMin(RAdd(keyword_bonus, sentiment_bonus), <<3, 20>>)

\* final_score of one row, reinforcement_learning.py:89-97
FinalScore(row, analysis, fault) ==
    RAdd(RAdd(row.success_rate,
              _calculate_context_similarity(row, analysis, fault)),
         RMin(<<1, 10>>, Frac(row.total_attempts, 100)))

LastRow(l, s) ==
    CHOOSE i \in 1..Len(l) :
        /\ l[i].strategy_name = s
        /\ \A j \in (i + 1)..Len(l) : l[j].strategy_name # s

\* strategy_scores[name]: a later row of the same name overwrites the score
ScoreOf(l, s, analysis, fault) == FinalScore(l[LastRow(l, s)], analysis, fault)

\* the fallback of the choosers misspelt
DefaultStrategyMisspelt == "consultive"

DefaultStrategy == "consultivo"

\* a chooser that compares the success rates alone
_choose_best_strategy_by_rate(l, analysis, fault) ==
    LET best == CHOOSE i \in 1..Len(l) :
                    /\ \A j \in 1..Len(l) :
                          RLe(l[j].success_rate, l[i].success_rate)
                    /\ \A j \in 1..(i - 1) :
                          RLt(l[j].success_rate, l[i].success_rate)
    IN  IF fault = "choose" THEN DefaultStrategy
        ELSE l[best].strategy_name

\* max(strategy_scores.items(), key=...): the first key, in insertion
\* order, whose score no other key exceeds
_choose_best_strategy(l, analysis, fault) ==
    LET keys == {i \in 1..Len(l) : FirstRow(l, l[i].strategy_name) = i}
        strategy_scores ==
            [i \in keys |-> ScoreOf(l, l[i].strategy_name, analysis, fault)]
        best == CHOOSE i \in keys :
                    /\ \A j \in keys : RLe(strategy_scores[j], strategy_scores[i])
                    /\ \A j \in keys :
                          j < i => RLt(strategy_scores[j], strategy_scores[i])
    IN  IF fault = "choose" THEN DefaultStrategy
        ELSE l[best].strategy_name

(***************************************************************************)
(* The exploration rate of get_best_strategy.                              *)
(***************************************************************************)
\* reinforcement_learning.py:14
exploration_rate == <<1, 5>>

\* reinforcement_learning.py:15
learning_decay == <<19, 20>>

\* reinforcement_learning.py:59:
\* exploration_rate * (learning_decay ** (total_attempts / 100)).  The power
\* has no rational value for a fractional exponent, so the product is kept
\* as its factor, its base and its exponent; the order of two such products
\* is the order of the floating-point values as long as the power is a
\* normal double (total_attempts below 1.38 million).
current_exploration_rate(total_attempts) ==
    [factor |-> exploration_rate,
     base |-> learning_decay,
     exponent |-> Frac(total_attempts, 100)]

\* x < y for two products of the same positive factor and positive base:
\* the power of a base below one falls as the exponent grows
PowLt(x, y) ==
    IF RLt(x.base, ROne) THEN RLt(y.exponent, x.exponent)
    ELSE IF RLt(ROne, x.base) THEN RLt(x.exponent, y.exponent)
    ELSE FALSE

\* 0 < x
PowPositive(x) == RLt(RZero, x.factor) /\ RLt(RZero, x.base)

\* x <= x.factor, for a positive factor and base
PowLeFactor(x) ==
    \/ x.base = ROne
    \/ RLt(x.base, ROne) /\ RLe(RZero, x.exponent)
    \/ RLt(ROne, x.base) /\ RLe(x.exponent, RZero)

\* weight of a row in the exploration draw, reinforcement_learning.py:118
ExplorationWeightPositive(row) == RLt(RZero, RAdd(row.success_rate, <<1, 10>>))

_choose_exploration_strategy(l, pick, fault) ==
    IF fault = "choose" THEN DefaultStrategy
    ELSE l[pick].strategy_name

\* value standing for an exception that leaves the call
Raised == "raised"

\* the selector without its outer try/except: a failing load leaves the call
get_best_strategy_unguarded(l, analysis, explore, pick, fault) ==
    IF fault = "load"
    THEN [ledger |-> l, result |-> Raised, session |-> "none"]
    ELSE IF l = <<>>
    THEN LET r == _initialize_strategies(l, fault)
         IN  [ledger |-> r.ledger, result |-> DefaultStrategy,
              session |-> r.session]
    ELSE LET strategy ==
                IF explore
                THEN _choose_exploration_strategy(l, pick, fault)
                ELSE _choose_best_strategy(l, analysis, fault)
             r == _update_attempt_count(l, strategy, fault)
         IN  [ledger |-> r.ledger, result |-> strategy, session |-> r.session]

\* reinforcement_learning.py:47-79.  explore is the outcome of
\* random.random() < current_exploration_rate (the rate lies strictly between
\* 0 and 1, so both outcomes can happen on every ledger); pick is the row
\* that random.choices draws.  Every exception is caught at line 77, so the
\* result is never Raised.
get_best_strategy(l, analysis, explore, pick, fault) ==
    IF fault = "load"
    THEN [ledger |-> l, result |-> DefaultStrategy, session |-> "none"]
    ELSE IF l = <<>>
    THEN LET r == _initialize_strategies(l, fault)
         IN  [ledger |-> r.ledger, result |-> DefaultStrategy,
              session |-> r.session]
    ELSE LET strategy ==
                IF explore
                THEN _choose_exploration_strategy(l, pick, fault)
                ELSE _choose_best_strategy(l, analysis, fault)
             r == _update_attempt_count(l, strategy, fault)
         IN  [ledger |-> r.ledger, result |-> strategy, session |-> r.session]

(***************************************************************************)
(* reinforcement_learning.py:231-275, get_learning_statistics.             *)
(***************************************************************************)
\* stats before the loop, reinforcement_learning.py:236-246
NoStatistics ==
    [error |-> FALSE, total_attempts |-> 0, total_successes |-> 0,
     best_strategy |-> "consultivo", worst_strategy |-> "consultivo",
     best_rate |-> RZero, worst_rate |-> ROne]

\* the loop of reinforcement_learning.py:248-266 from row i on
RECURSIVE StatisticsFrom(_, _, _)
StatisticsFrom(l, i, stats) ==
    IF i > Len(l) THEN stats
    ELSE LET data == l[i]
             summed == [stats EXCEPT
                          !.total_attempts = @ + data.total_attempts,
                          !.total_successes = @ + data.success_count]
             best == IF RLt(stats.best_rate, data.success_rate)
                     THEN [summed EXCEPT
                             !.best_rate = data.success_rate,
                             !.best_strategy = data.strategy_name]
                     ELSE summed
             worst == IF RLt(data.success_rate, stats.worst_rate)
                      THEN [best EXCEPT
                              !.worst_rate = data.success_rate,
                              !.worst_strategy = data.strategy_name]
                      ELSE best
         IN  StatisticsFrom(l, i + 1, worst)

\* a failing load is answered with {"error": ...}
get_learning_statistics(l, fault) ==
    IF fault = "load" THEN [NoStatistics EXCEPT !.error = TRUE]
    ELSE StatisticsFrom(l, 1, NoStatistics)

(***************************************************************************)
(* Conversation rows read by record_success and simulate_sale.             *)
(***************************************************************************)
\* sentiment_score of a row that has none (SQL NULL)
NoSentiment == <<0, 0>>

\* how many recent conversations record_success reads
RecentLimit == 10

\* indices of the conversations of one customer, oldest first
ConversationsOf(convs, customer_id) ==
    {i \in 1..Len(convs) : convs[i].customer_id = customer_id}

\* .order_by(timestamp.desc()).limit(10): the newest rows of the customer
RecentConversations(convs, customer_id) ==
    LET mine == ConversationsOf(convs, customer_id)
    IN  {i \in mine : Cardinality({j \in mine : j > i}) < RecentLimit}

RECURSIVE SumSentiments(_, _)
SumSentiments(convs, idx) ==
    IF idx = {} THEN RZero
    ELSE LET i == CHOOSE k \in idx : TRUE
         IN  RAdd(convs[i].sentiment_score, SumSentiments(convs, idx \ {i}))

\* avg_sentiment, reinforcement_learning.py:188-193
AverageSentiment(convs, customer_id) ==
    LET scored == {i \in RecentConversations(convs, customer_id) :
                      /\ convs[i].sentiment_score # NoSentiment
                      /\ convs[i].sentiment_score # RZero}
        total == SumSentiments(convs, scored)
    IN  IF scored = {} THEN RZero
        ELSE Frac(total[1], total[2] * Cardinality(scored))

\* the success update that also counts an attempt
record_success_counting(l, custs, convs, customer_id, strategy, fault) ==
    LET i == FirstRow(l, strategy)
    IN  IF customer_id \notin 1..Len(custs)
        THEN [ledger |-> l, session |-> "none"]
        ELSE IF fault = "write" THEN [ledger |-> l, session |-> "rollback"]
        ELSE IF i = 0 THEN [ledger |-> l, session |-> "commit"]
        ELSE [ledger |->
                [l EXCEPT ![i] =
                    [@ EXCEPT
                        !.success_count = @ + 1,
                        !.total_attempts = @ + 1,
                        !.success_rate = Frac(l[i].success_count + 1,
                                              l[i].total_attempts + 1),
                        !.customer_sentiment = AverageSentiment(convs, customer_id),
                        !.context_keywords = {}]],
              session |-> "commit"]

\* a success update that creates the record of an unknown strategy
record_success_creating(l, custs, convs, customer_id, strategy, fault) ==
    LET i == FirstRow(l, strategy)
    IN  IF customer_id \notin 1..Len(custs)
        THEN [ledger |-> l, session |-> "none"]
        ELSE IF fault = "write" THEN [ledger |-> l, session |-> "rollback"]
        ELSE IF i = 0
        THEN [ledger |-> Append(l, [NewRow(strategy) EXCEPT
                                       !.success_count = 1,
                                       !.success_rate = ROne]),
              session |-> "commit"]
        ELSE [ledger |->
                [l EXCEPT ![i] =
                    [@ EXCEPT
                        !.success_count = @ + 1,
                        !.success_rate = Frac(l[i].success_count + 1,
                                              l[i].total_attempts),
                        !.customer_sentiment = AverageSentiment(convs, customer_id),
                        !.context_keywords = {}]],
              session |-> "commit"]

\* reinforcement_learning.py:169-210.  With no row of that name the commit
\* still happens; the log line after it then fails and is caught.
record_success(l, custs, convs, customer_id, strategy, fault) ==
    LET i == FirstRow(l, strategy)
    IN  IF customer_id \notin 1..Len(custs)
        THEN [ledger |-> l, session |-> "none"]
        ELSE IF fault = "write" THEN [ledger |-> l, session |-> "rollback"]
        ELSE IF i = 0 THEN [ledger |-> l, session |-> "commit"]
        ELSE [ledger |->
                [l EXCEPT ![i] =
                    [@ EXCEPT
                        !.success_count = @ + 1,
                        !.success_rate = Frac(l[i].success_count + 1,
                                              l[i].total_attempts),
                        !.customer_sentiment = AverageSentiment(convs, customer_id),
                        !.context_keywords = {}]],
              session |-> "commit"]

\* the failure update that counts the attempt a second time
record_failure_counting(l, strategy, fault) ==
    LET i == FirstRow(l, strategy)
    IN  IF fault = "write" THEN [ledger |-> l, session |-> "rollback"]
        ELSE IF i = 0 THEN [ledger |-> l, session |-> "commit"]
        ELSE [ledger |->
                [l EXCEPT ![i] =
                    [@ EXCEPT
                        !.total_attempts = @ + 1,
                        !.success_rate = Frac(l[i].success_count,
                                              l[i].total_attempts + 1)]],
              session |-> "commit"]

\* reinforcement_learning.py:212-229
record_failure(l, strategy, fault) ==
    LET i == FirstRow(l, strategy)
    IN  IF fault = "write" THEN [ledger |-> l, session |-> "rollback"]
        ELSE IF i = 0 THEN [ledger |-> l, session |-> "commit"]
        ELSE [ledger |->
                [l EXCEPT ![i].success_rate =
                    Frac(l[i].success_count, l[i].total_attempts)],
              session |-> "commit"]

(***************************************************************************)
(* The funnel state machine (ai_agent.py).                                 *)
(* A message is the sequence of its space-separated tokens; a handler      *)
(* reads the last message of the history it is given.  A payload is the    *)
(* dictionary a handler returns; "completions" counts the calls it made to *)
(* the completion service and "raised" tells that it raised instead of     *)
(* returning.                                                              *)
(***************************************************************************)
MaxProducts == 2        \* rows of the Product table

Null == "None"          \* Python None in a string field

NoProduct == 0          \* selected_product_id NULL, product_id_to_select absent

\* models.py:5-31: the columns of Product the handlers branch on
Product(id, is_active) == [name |-> "Curso " \o ToString(id),
                           is_active |-> is_active]

\* the inbound messages the funnel is driven with: the values of the
\* buttons the handlers emit and free text
Messages ==
    { <<"Ver", "Cursos">>,
      <<"Qual", "o", "valor">>,
      <<"Quero", "falar", "no", "WhatsApp">>,
      <<"Quero", "saber", "sobre", "o", "curso", "1">>,
      <<"Quero", "saber", "sobre", "o", "curso", "2">>,
      <<"Quero", "saber", "sobre", "o", "curso", "3">>,
      <<"quero", "o", "curso", "2.">>,
      <<"oi">>,
      <<"">>,
      <<"Quero", "a", "oferta">>,
      <<"Já", "comprei!">>,
      <<"Tive", "um", "problema">>,
      <<"comprei", "mas", "tive", "um", "problema">>,
      <<"problema", "pagamento">>,
      <<"problema", "link", "cupom">>,
      <<"problema", "outra", "duvida">>,
      <<"VER", "CURSOS", "e", "o", "valor">>,
      <<"Preço", "e", "WhatsApp?">>,
      <<"link", "de", "pagamento">> }

\* the histories handed to a handler: empty, or ending with a message
Histories == {<<>>} \cup {<<m>> : m \in Messages}

\* the tactic handed to a handler
Tactics == {"consultivo", "escassez"}

\* a lower() that leaves every token as it is
lower_unchanged(token) == token

\* str.lower() on a token
lower(token) ==
    CASE token \in {"Ver", "VER"} -> "ver"
      [] token \in {"Cursos", "CURSOS"} -> "cursos"
      [] token = "Preço" -> "preço"
      [] token = "WhatsApp?" -> "whatsapp?"
      [] token = "Qual" -> "qual"
      [] token = "Quero" -> "quero"
      [] token = "WhatsApp" -> "whatsapp"
      [] token = "Já" -> "já"
      [] token = "Tive" -> "tive"
      [] OTHER -> token

\* keyword in token, for lowercase tokens: the token is the keyword or
\* holds it as a proper substring
Occurs == {<<"comprei", "comprei!">>, <<"whatsapp", "whatsapp?">>}

In(keyword, token) == token = keyword \/ <<keyword, token>> \in Occurs

\* keyword in last_message, for a keyword without a space
Contains(message, keyword) ==
    \E i \in 1..Len(message) : In(keyword, lower(message[i]))

\* "first second" in last_message: two tokens in a row
ContainsPhrase(message, first, second) ==
    \E i \in 1..(Len(message) - 1) :
        /\ lower(message[i]) = first
        /\ lower(message[i + 1]) = second

\* history[-1]['message_content'] if history else ""
LastMessage(history) ==
    IF history = <<>> THEN <<"">> ELSE history[Len(history)]

\* a conversion that reads the digits a token starts with
int_lenient(token) ==
    CASE token \in {"1"} -> <<TRUE, 1>>
      [] token \in {"2", "2."} -> <<TRUE, 2>>
      [] token \in {"3"} -> <<TRUE, 3>>
      [] OTHER -> <<FALSE, 0>>

\* int(token): <<TRUE, value>>, or <<FALSE, 0>> for ValueError
int(token) ==
    CASE token = "1" -> <<TRUE, 1>>
      [] token = "2" -> <<TRUE, 2>>
      [] token = "3" -> <<TRUE, 3>>
      [] OTHER -> <<FALSE, 0>>

\* Product.query.get(id) finds a row
ProductExists(id) == id \in 1..Len(products)

\* Product.query.filter_by(is_active=True).all(): the ids, in table order
ActiveProducts == SelectSeq([i \in 1..Len(products) |-> i],
                            LAMBDA i : products[i].is_active)

(***************************************************************************)
(* The completion service and _make_api_call.                              *)
(***************************************************************************)
\* response.text of the completion service, when the call returns
Bodies == { "", "oi", "[]", "\"ok\"", "7", "null", "{}",
            "{\"text\": null}", "{\"text\": \"\"}",
            "{\"text\": \"Oferta especial\"}" }

\* outcomes of model.generate_content: it raises (error, timeout, blocked
\* response) or returns a body
Completions == {[raises |-> TRUE, body |-> ""]} \cup
               {[raises |-> FALSE, body |-> b] : b \in Bodies}

Json(type, has_text, text) ==
    [type |-> type, has_text |-> has_text, text |-> text]

\* json.loads(body): type "error" stands for JSONDecodeError
json_loads(body) ==
    CASE body = "[]" -> Json("list", FALSE, Null)
      [] body = "\"ok\"" -> Json("str", FALSE, Null)
      [] body = "7" -> Json("int", FALSE, Null)
      [] body = "null" -> Json("NoneType", FALSE, Null)
      [] body = "{}" -> Json("dict", FALSE, Null)
      [] body = "{\"text\": null}" -> Json("dict", TRUE, Null)
      [] body = "{\"text\": \"\"}" -> Json("dict", TRUE, "")
      [] body = "{\"text\": \"Oferta especial\"}" ->
            Json("dict", TRUE, "Oferta especial")
      [] OTHER -> Json("error", FALSE, Null)

FallbackText ==
    "Desculpe, tive um problema para processar sua solicitação. Poderia tentar de novo?"

\* the call without its try/except: a failure of the completion service
\* gets out
_make_api_call_unguarded(api) ==
    IF api.raises THEN Json("error", FALSE, Null) ELSE json_loads(api.body)

\* ai_agent.py:58-69
_make_api_call(api) ==
    IF api.raises \/ json_loads(api.body).type = "error"
    THEN Json("dict", TRUE, FallbackText)
    ELSE json_loads(api.body)

(***************************************************************************)
(* The payloads and the handlers.                                          *)
(***************************************************************************)
Button(label, value) == [label |-> label, value |-> value]

\* a returned dictionary; "prompt_tactic" is the tactic written into the
\* prompt of the completion call, if one was made with it
Payload(text, buttons, update) ==
    [text |-> text, buttons |-> buttons, product_id_to_select |-> NoProduct,
     funnel_state_update |-> update, completions |-> 0,
     prompt_tactic |-> NoStrategy, raised |-> FALSE]

\* the handler raised after its completion call: nothing is returned
RaisedPayload(tactic) ==
    [text |-> Null, buttons |-> <<>>, product_id_to_select |-> NoProduct,
     funnel_state_update |-> Null, completions |-> 1,
     prompt_tactic |-> tactic, raised |-> TRUE]

DefaultText == "Não entendi muito bem. Como posso te ajudar?"

ProductNotFound == "Produto não encontrado."

\* a default handler that raises when it is given an error
_handle_default_raising(customer, history, tactic, api, error) ==
    IF error = Null
    THEN Payload(DefaultText,
                 <<Button("Ver Cursos", <<"Ver", "Cursos">>),
                   Button("Falar com Suporte",
                          <<"Quero", "falar", "no", "WhatsApp">>)>>,
                 "start")
    ELSE [RaisedPayload(NoStrategy) EXCEPT !.completions = 0]

\* ai_agent.py:300-310
_handle_default(customer, history, tactic, api, error) ==
    Payload(IF error = Null THEN DefaultText ELSE error,
            <<Button("Ver Cursos", <<"Ver", "Cursos">>),
              Button("Falar com Suporte",
                     <<"Quero", "falar", "no", "WhatsApp">>)>>,
            "start")

\* ai_agent.py:173-182
_handle_start(customer, history, tactic, api) ==
    Payload("Olá! Sou da Comunidade ATP. Como posso te ajudar hoje?",
            <<Button("Ver Cursos", <<"Ver", "Cursos">>),
              Button("Qual o Preço?",
                     <<"Qual", "o", "valor", "da", "comunidade?">>),
              Button("WhatsApp", <<"Quero", "falar", "no", "WhatsApp">>)>>,
            "awaiting_choice")

ProductListText ==
    "Ótima escolha! Temos os melhores especialistas do mercado. Qual destes cursos te interessa mais?"

\* the buttons of the product list, one for each active product
ProductButtons ==
    [k \in 1..Len(ActiveProducts) |->
        Button(products[ActiveProducts[k]].name,
               <<"Quero", "saber", "sobre", "o", "curso",
                 ToString(ActiveProducts[k])>>)]

\* ai_agent.py:184-193
_handle_list_products(customer, history, tactic, api) ==
    IF ActiveProducts = <<>>
    THEN _handle_default(customer, history, tactic, api,
                         "No momento, estamos atualizando nosso catálogo.")
    ELSE Payload(ProductListText, ProductButtons, "awaiting_product_selection")

\* ai_agent.py:195-203
_handle_get_price(customer, history, tactic, api) ==
    Payload("O acesso à Comunidade ATP com mais de 800 cursos é vitalício, por um pagamento único. O que você gostaria de fazer?",
            <<Button("Ver a Lista de Cursos", <<"Ver", "Cursos">>),
              Button("Falar com Suporte",
                     <<"Quero", "falar", "no", "WhatsApp">>)>>,
            "awaiting_choice")

\* ai_agent.py:205-212
_handle_whatsapp_redirect(customer, history, tactic, api) ==
    Payload("Claro! Para falar com um dos nossos consultores, basta clicar no botão abaixo.",
            <<Button("Abrir WhatsApp",
                     <<"Quero", "falar", "no", "WhatsApp">>)>>,
            "completed")

\* the routing without .lower() and without the price and redirect branches
_handle_awaiting_choice_case_sensitive(customer, history, tactic, api) ==
    LET last_message == LastMessage(history)
    IN  IF \E i \in 1..(Len(last_message) - 1) :
                last_message[i] = "ver" /\ last_message[i + 1] = "cursos"
        THEN _handle_list_products(customer, history, tactic, api)
        ELSE _handle_default(customer, history, tactic, api, Null)

\* ai_agent.py:82-91
_handle_awaiting_choice(customer, history, tactic, api) ==
    LET last_message == LastMessage(history)
    IN  IF ContainsPhrase(last_message, "ver", "cursos")
        THEN _handle_list_products(customer, history, tactic, api)
        ELSE IF Contains(last_message, "preço")
                \/ Contains(last_message, "valor")
        THEN _handle_get_price(customer, history, tactic, api)
        ELSE IF Contains(last_message, "whatsapp")
        THEN _handle_whatsapp_redirect(customer, history, tactic, api)
        ELSE _handle_default(customer, history, tactic, api, Null)

\* the selection without the product lookup
_handle_awaiting_product_selection_unchecked(customer, history, tactic, api) ==
    LET last_message == LastMessage(history)
        product_id == int(last_message[Len(last_message)])
    IN  IF product_id[1]
        THEN [Payload(Null, <<>>, "specialist_intro")
                EXCEPT !.product_id_to_select = product_id[2]]
        ELSE _handle_list_products(customer, history, tactic, api)

\* ai_agent.py:93-105
_handle_awaiting_product_selection(customer, history, tactic, api) ==
    LET last_message == LastMessage(history)
        \* int(last_message.split(' ')[-1])
        product_id == int(last_message[Len(last_message)])
    IN  IF product_id[1] /\ ProductExists(product_id[2])
        THEN [Payload(Null, <<>>, "specialist_intro")
                EXCEPT !.product_id_to_select = product_id[2]]
        ELSE _handle_list_products(customer, history, tactic, api)

\* value of a button that opens a link of the product
Link(field, id) == <<"link:" \o field \o ":" \o ToString(id)>>

\* ai_agent.py:214-228
_handle_specialist_intro(customer, history, tactic, api) ==
    LET id == customer.selected_product_id
    IN  IF ~ProductExists(id)
        THEN _handle_default(customer, history, tactic, api, ProductNotFound)
        ELSE Payload("Perfeito! Eu sou um especialista, especialista no curso '"
                        \o products[id].name \o "'.",
                     <<Button("Acessar Aulas Gratuitas",
                              Link("free_group_link", id)),
                       Button("Ver Depoimentos",
                              Link("testimonials_link", id)),
                       Button("Gostei, quero a oferta!",
                              <<"Quero", "a", "oferta">>)>>,
                     "awaiting_offer_choice")

\* an offer that asks the completion service a second time when the first
\* call failed
_handle_specialist_offer_retrying(customer, history, tactic, api) ==
    LET id == customer.selected_product_id
        response_json == _make_api_call(api)
    IN  IF ~ProductExists(id)
        THEN _handle_default(customer, history, tactic, api, ProductNotFound)
        ELSE IF response_json.type # "dict"
        THEN RaisedPayload(NoStrategy)
        ELSE [Payload(IF response_json.has_text THEN response_json.text
                      ELSE " Aproveite a oferta especial para o curso "
                              \o products[id].name \o "!",
                      <<Button("Comprar com Desconto",
                               Link("payment_link", id)),
                        Button("Tive um problema",
                               <<"Tive", "um", "problema", "na", "compra">>),
                        Button("Comprei!", <<"Já", "comprei!">>)>>,
                      "awaiting_purchase_outcome")
                EXCEPT !.completions =
                          IF response_json.text = FallbackText THEN 2 ELSE 1]

\* ai_agent.py:230-249
_handle_specialist_offer(customer, history, tactic, api) ==
    LET id == customer.selected_product_id
        response_json == _make_api_call(api)
    IN  IF ~ProductExists(id)
        THEN _handle_default(customer, history, tactic, api, ProductNotFound)
        ELSE IF response_json.type # "dict"
        THEN \* response_json.get raises AttributeError
             RaisedPayload(NoStrategy)
        ELSE [Payload(IF response_json.has_text THEN response_json.text
                      ELSE " Aproveite a oferta especial para o curso "
                              \o products[id].name \o "!",
                      <<Button("Comprar com Desconto",
                               Link("payment_link", id)),
                        Button("Tive um problema",
                               <<"Tive", "um", "problema", "na", "compra">>),
                        Button("Comprei!", <<"Já", "comprei!">>)>>,
                      "awaiting_purchase_outcome")
                EXCEPT !.completions = 1]

\* ai_agent.py:251-277
_handle_specialist_followup(customer, history, tactic, api) ==
    LET id == customer.selected_product_id
        response_json == _make_api_call(api)
    IN  IF ~ProductExists(id)
        THEN _handle_default(customer, history, tactic, api, ProductNotFound)
        ELSE IF response_json.type # "dict"
        THEN \* response_json.get raises AttributeError
             RaisedPayload(tactic)
        ELSE [Payload(IF response_json.has_text THEN response_json.text
                      ELSE "Entendo a sua dúvida. Deixe-me explicar melhor...",
                      <<Button("Entendi, quero comprar agora",
                               Link("payment_link", id)),
                        Button("Ainda tenho uma dúvida",
                               <<"Ainda", "tenho", "uma", "dúvida">>)>>,
                      "awaiting_final_objection")
                EXCEPT !.completions = 1, !.prompt_tactic = tactic]

\* ai_agent.py:279-284
_handle_specialist_success(customer, history, tactic, api) ==
    Payload("Parabéns pela sua decisão e seja muito bem-vindo(a) à comunidade!",
            <<>>, "completed")

\* ai_agent.py:286-298
_handle_specialist_problem(customer, history, tactic, api) ==
    Payload("Sem problemas, estou aqui para ajudar! Para eu entender melhor, o seu problema está relacionado a quê?",
            <<Button("Problema com Pagamento", <<"problema", "pagamento">>),
              Button("Link ou Cupom não funciona",
                     <<"problema", "link", "cupom">>),
              Button("Tenho uma outra dúvida",
                     <<"problema", "outra", "duvida">>)>>,
            "awaiting_problem_category")

\* the offer choice that names specialist_offer as next state and leaves
\* the offer to the next message
_handle_awaiting_offer_choice_deferring(customer, history, tactic, api) ==
    IF Contains(LastMessage(history), "oferta")
    THEN Payload(Null, <<>>, "specialist_offer")
    ELSE Payload("Entendido. Quando estiver pronto para ver a oferta especial que preparei para ti, é só avisar!",
                 <<Button("Estou pronto, quero a oferta!",
                          <<"Quero", "a", "oferta">>)>>,
                 "awaiting_offer_choice")

\* ai_agent.py:107-116
_handle_awaiting_offer_choice(customer, history, tactic, api) ==
    IF Contains(LastMessage(history), "oferta")
    THEN _handle_specialist_offer(customer, history, tactic, api)
    ELSE Payload("Entendido. Quando estiver pronto para ver a oferta especial que preparei para ti, é só avisar!",
                 <<Button("Estou pronto, quero a oferta!",
                          <<"Quero", "a", "oferta">>)>>,
                 "awaiting_offer_choice")

\* the routing that looks for "problema" before "comprei"
_handle_awaiting_purchase_outcome_problem_first(customer, history, tactic, api) ==
    LET last_message == LastMessage(history)
    IN  IF Contains(last_message, "problema")
        THEN _handle_specialist_problem(customer, history, tactic, api)
        ELSE IF Contains(last_message, "comprei")
        THEN _handle_specialist_success(customer, history, tactic, api)
        ELSE _handle_specialist_followup(customer, history, tactic, api)

\* ai_agent.py:118-125
_handle_awaiting_purchase_outcome(customer, history, tactic, api) ==
    LET last_message == LastMessage(history)
    IN  IF Contains(last_message, "comprei")
        THEN _handle_specialist_success(customer, history, tactic, api)
        ELSE IF Contains(last_message, "problema")
        THEN _handle_specialist_problem(customer, history, tactic, api)
        ELSE _handle_specialist_followup(customer, history, tactic, api)

\* the triage that looks for "link" and "cupom" before "pagamento"
_handle_awaiting_problem_category_link_first(customer, history, tactic, api) ==
    LET last_message == LastMessage(history)
        id == customer.selected_product_id
    IN  IF ~ProductExists(id)
        THEN _handle_default(customer, history, tactic, api,
                             "Produto não encontrado para triagem.")
        ELSE IF Contains(last_message, "link")
                \/ Contains(last_message, "cupom")
        THEN Payload("Claro! Às vezes o cupom precisa ser reaplicado ou o link expira.",
                     <<Button("Tentar comprar com novo link",
                              Link("payment_link", id))>>,
                     "awaiting_purchase_outcome")
        ELSE IF Contains(last_message, "pagamento")
        THEN Payload("Entendi, problemas com pagamento acontecem.",
                     <<Button("Sim, gerar novo link",
                              Link("payment_link", id)),
                       Button("Falar com Suporte",
                              <<"Quero", "falar", "no", "WhatsApp">>)>>,
                     "awaiting_purchase_outcome")
        ELSE Payload("Entendido. Por favor, agora sim, escreva em detalhes a sua dúvida ou o problema que está a enfrentar para que eu possa te ajudar da melhor forma.",
                     <<>>, "awaiting_specific_description")

\* ai_agent.py:127-163
_handle_awaiting_problem_category(customer, history, tactic, api) ==
    LET last_message == LastMessage(history)
        id == customer.selected_product_id
    IN  IF ~ProductExists(id)
        THEN _handle_default(customer, history, tactic, api,
                             "Produto não encontrado para triagem.")
        ELSE IF Contains(last_message, "pagamento")
        THEN Payload("Entendi, problemas com pagamento acontecem.",
                     <<Button("Sim, gerar novo link",
                              Link("payment_link", id)),
                       Button("Falar com Suporte",
                              <<"Quero", "falar", "no", "WhatsApp">>)>>,
                     "awaiting_purchase_outcome")
        ELSE IF Contains(last_message, "link")
                \/ Contains(last_message, "cupom")
        THEN Payload("Claro! Às vezes o cupom precisa ser reaplicado ou o link expira.",
                     <<Button("Tentar comprar com novo link",
                              Link("payment_link", id))>>,
                     "awaiting_purchase_outcome")
        ELSE Payload("Entendido. Por favor, agora sim, escreva em detalhes a sua dúvida ou o problema que está a enfrentar para que eu possa te ajudar da melhor forma.",
                     <<>>, "awaiting_specific_description")

\* ai_agent.py:165-169
_handle_awaiting_specific_description(customer, history, tactic, api) ==
    _handle_specialist_followup(customer, history, tactic, api)

\* ai_agent.py:36-56: the keys of the dispatch table
state_handlers ==
    { "start", "awaiting_choice", "list_products",
      "awaiting_product_selection", "get_price", "whatsapp_redirect",
      "specialist_intro", "awaiting_offer_choice", "specialist_offer",
      "awaiting_purchase_outcome", "specialist_problem",
      "awaiting_problem_category", "awaiting_specific_description",
      "specialist_followup", "specialist_success", "default" }

\* self.state_handlers[state](customer, history, tactic)
Handle(state, customer, history, tactic, api) ==
    CASE state = "start" -> _handle_start(customer, history, tactic, api)
      [] state = "awaiting_choice" ->
            _handle_awaiting_choice(customer, history, tactic, api)
      [] state = "list_products" ->
            _handle_list_products(customer, history, tactic, api)
      [] state = "awaiting_product_selection" ->
            _handle_awaiting_product_selection(customer, history, tactic, api)
      [] state = "get_price" ->
            _handle_get_price(customer, history, tactic, api)
      [] state = "whatsapp_redirect" ->
            _handle_whatsapp_redirect(customer, history, tactic, api)
      [] state = "specialist_intro" ->
            _handle_specialist_intro(customer, history, tactic, api)
      [] state = "awaiting_offer_choice" ->
            _handle_awaiting_offer_choice(customer, history, tactic, api)
      [] state = "specialist_offer" ->
            _handle_specialist_offer(customer, history, tactic, api)
      [] state = "awaiting_purchase_outcome" ->
            _handle_awaiting_purchase_outcome(customer, history, tactic, api)
      [] state = "specialist_problem" ->
            _handle_specialist_problem(customer, history, tactic, api)
      [] state = "awaiting_problem_category" ->
            _handle_awaiting_problem_category(customer, history, tactic, api)
      [] state = "awaiting_specific_description" ->
            _handle_awaiting_specific_description(customer, history, tactic,
                                                  api)
      [] state = "specialist_followup" ->
            _handle_specialist_followup(customer, history, tactic, api)
      [] state = "specialist_success" ->
            _handle_specialist_success(customer, history, tactic, api)
      [] OTHER -> _handle_default(customer, history, tactic, api, Null)

\* the dispatch without the default for a missing state
generate_response_strict(customer, history, tactic, api) ==
    IF customer.funnel_state \in state_handlers
    THEN Handle(customer.funnel_state, customer, history, tactic, api)
    ELSE _handle_default(customer, history, tactic, api, Null)

\* ai_agent.py:71-78
generate_response(customer, history, tactic, api) ==
    LET current_state == IF customer.funnel_state \in {Null, ""}
                         THEN "start" ELSE customer.funnel_state
    IN  IF current_state \in state_handlers
        THEN Handle(current_state, customer, history, tactic, api)
        ELSE _handle_default(customer, history, tactic, api, Null)

\* Customer(...) at routes.py:191-197 with the column defaults of
\* models.py:45-48
NewLead == [funnel_state |-> "start", selected_product_id |-> NoProduct]

NoCompletion == [raises |-> FALSE, body |-> "-"]

\* a call of the agent and how it ended; "answered" tells that a payload
\* came back
Turn(op, state, history, api, payload, answered) ==
    [op |-> op, state |-> state, history |-> history, api |-> api,
     payload |-> payload, answered |-> answered]

NoTurn == Turn("none", Null, <<>>, NoCompletion,
               Payload(Null, <<>>, Null), FALSE)

\* no agent is built, the catalogue is empty and no message has arrived
FunnelIdle ==
    /\ environ = TRUE
    /\ ai_agent = "none"
    /\ products = <<>>
    /\ lead = NewLead
    /\ turn = NoTurn

(***************************************************************************)
(* The sequential system: one request at a time (routes.py).               *)
(***************************************************************************)
Call(op, strategy, fault, result) ==
    [op |-> op, strategy |-> strategy, fault |-> fault, result |-> result]

\* app.py:31-34: the tables exist and are empty, no handler is built yet
Init ==
    /\ learner = "none"
    /\ ledger = <<>>
    /\ customers = <<>>
    /\ conversations = <<>>
    /\ sales = <<>>
    /\ webhooks = NoWebhooks
    /\ last = Call("none", NoStrategy, "none", "none")
    /\ workers = <<>>
    /\ FunnelIdle

\* attempts and successes recorded so far stay within the bounds
AttemptsLeft == SumAttempts(ledger) - Len(ledger) < MaxAttempts
SuccessesLeft == SumSuccesses(ledger) < MaxSuccesses

\* the draws of get_best_strategy: 0 exploits, i > 0 explores and draws row i
Choices(l) == {0} \cup {i \in 1..Len(l) : ExplorationWeightPositive(l[i])}

\* the distinct ways one get_best_strategy call can end on ledger l for a
\* customer of that sentiment: over the keywords, the draw and the fault
SelectorRuns(l, sentiment) ==
    {[fault |-> fault,
      r |-> get_best_strategy(l, [sentiment |-> sentiment, keywords |-> k],
                              choice # 0, choice, fault)] :
        k \in KeywordSets, choice \in Choices(l), fault \in Faults}

\* routes.py:18-23 and reinforcement_learning.py:12-21: (re)start of the
\* process builds the learner, which initialises the strategies
Construct ==
    \E fault \in {"none", "write"} :
        LET r == _initialize_strategies(ledger, fault)
        IN  /\ learner' = "ready"
            /\ ledger' = r.ledger
            /\ last' = Call("_initialize_strategies", NoStrategy, fault,
                            r.session)
            /\ UNCHANGED <<customers, conversations, sales, workers, webhooks, funnelVars>>

\* reinforcement_learning.py:47-79, called on its own
GetBestStrategy ==
    /\ learner = "ready"
    /\ AttemptsLeft
    /\ \E sentiment \in Sentiments :
        \E run \in SelectorRuns(ledger, sentiment) :
            /\ ledger' = run.r.ledger
            /\ last' = Call("get_best_strategy", run.r.result, run.fault,
                            run.r.result)
    /\ UNCHANGED <<learner, customers, conversations, sales, workers, webhooks, funnelVars>>

\* reinforcement_learning.py:169-210, called on its own
RecordSuccess ==
    /\ learner = "ready"
    /\ SuccessesLeft
    /\ \E customer_id \in CustomerArgs \ {0}, strategy \in StrategyArgs,
          fault \in {"none", "write"} :
        LET r == record_success(ledger, customers, conversations,
                                customer_id, strategy, fault)
        IN  /\ ledger' = r.ledger
            /\ last' = Call("record_success", strategy, fault, r.session)
    /\ UNCHANGED <<learner, customers, conversations, sales, workers, webhooks, funnelVars>>

\* reinforcement_learning.py:212-229, called on its own (its customer_id
\* argument is never read)
RecordFailure ==
    /\ learner = "ready"
    /\ \E strategy \in StrategyArgs, fault \in {"none", "write"} :
        LET r == record_failure(ledger, strategy, fault)
        IN  /\ ledger' = r.ledger
            /\ last' = Call("record_failure", strategy, fault, r.session)
    /\ UNCHANGED <<learner, customers, conversations, sales, workers, webhooks, funnelVars>>

\* ai_strategy of the newest outgoing conversation of the customer, or the
\* default when there is none (routes.py:295-300)
StrategyUsed(convs, customer_id) ==
    LET out == {i \in ConversationsOf(convs, customer_id) :
                    convs[i].message_type = "outgoing"}
    IN  IF out = {} THEN DefaultStrategy
        ELSE convs[CHOOSE i \in out : \A j \in out : j <= i].ai_strategy

\* routes.py:280-326.  "route" is a failure of the route's own statements;
\* "write" is a failure inside record_success, which rolls the shared
\* session back and returns normally.
SimulateSale ==
    /\ learner = "ready"
    /\ SuccessesLeft
    /\ Len(sales) < MaxSuccesses
    /\ \E customer_id \in CustomerArgs, fault \in {"none", "write", "route"} :
        LET strategy_used == StrategyUsed(conversations, customer_id)
            r == record_success(ledger, customers, conversations,
                                customer_id, strategy_used, fault)
        IN  IF fault = "route"
            THEN /\ last' = Call("simulate_sale", NoStrategy, fault, "500")
                 /\ UNCHANGED <<ledger, customers, sales>>
            ELSE IF customer_id = 0
            THEN /\ last' = Call("simulate_sale", NoStrategy, fault, "400")
                 /\ UNCHANGED <<ledger, customers, sales>>
            ELSE IF customer_id \notin 1..Len(customers)
            THEN /\ last' = Call("simulate_sale", NoStrategy, fault, "404")
                 /\ UNCHANGED <<ledger, customers, sales>>
            ELSE /\ ledger' = r.ledger
                 /\ IF r.session = "commit"
                    THEN /\ sales' = Append(sales, customer_id)
                         /\ customers' =
                              [customers EXCEPT ![customer_id].purchased = TRUE]
                    ELSE UNCHANGED <<customers, sales>>
                 /\ last' = Call("simulate_sale", strategy_used, fault, "200")
    /\ UNCHANGED <<learner, conversations, workers, webhooks, funnelVars>>

(***************************************************************************)
(* routes.py:177-278, process_incoming_message.                            *)
(* The customer row, the interaction count and the incoming record are     *)
(* pending in the session when get_best_strategy runs; a commit or a       *)
(* rollback inside the learner acts on them too.  The agent calls          *)
(* (analyze_customer_intent, detect_purchase_intent, generate_response)    *)
(* and the send are outcomes of collaborators:                             *)
(*   "analysis_raises"  an agent call before the selector raises           *)
(*   "generate_raises"  the selector ran, the response generation raises   *)
(*   "send_fails"       the reply was built, send_message returns False    *)
(*   "sent"             send_message returns True                          *)
(***************************************************************************)
Outcomes == {"analysis_raises", "generate_raises", "send_fails", "sent"}

\* Customer.query.filter_by(whatsapp_number=phone).first(): its id, or 0
CustomerOf(custs, phone) ==
    IF \E i \in 1..Len(custs) : custs[i].whatsapp_number = phone
    THEN CHOOSE i \in 1..Len(custs) :
            /\ custs[i].whatsapp_number = phone
            /\ \A j \in 1..(i - 1) : custs[j].whatsapp_number # phone
    ELSE 0

\* process_incoming_message without the interaction count of a known customer
process_incoming_message_upto_uncounted(limit) ==
    /\ learner = "ready"
    /\ AttemptsLeft
    /\ Len(conversations) + 2 <= limit
    /\ \/ \* routes.py:230-236 raise before the selector runs: line 277 rolls
          \* the pending customer and incoming record back
          /\ last' = Call("process_incoming_message", NoStrategy,
                          "analysis_raises", "False")
          /\ UNCHANGED <<ledger, customers, conversations>>
       \/ \E phone \in Phones, sentiment \in Sentiments :
          \E run \in SelectorRuns(ledger, sentiment) :
          \E outcome \in Outcomes \ {"analysis_raises"} :
            LET known == CustomerOf(customers, phone)
                id == IF known = 0 THEN Len(customers) + 1 ELSE known
                \* routes.py:189-203
                pendingCustomers ==
                    IF known = 0
                    THEN Append(customers,
                                [whatsapp_number |-> phone,
                                 total_interactions |-> 1,
                                 purchased |-> FALSE])
                    ELSE customers
                \* routes.py:206-213 and 233
                incoming == [customer_id |-> id, message_type |-> "incoming",
                             ai_strategy |-> NoStrategy,
                             sentiment_score |-> sentiment]
                \* routes.py:239
                sel == run.r
                \* routes.py:254-261
                outgoing == [customer_id |-> id, message_type |-> "outgoing",
                             ai_strategy |-> sel.result,
                             sentiment_score |-> NoSentiment]
                \* the selector's commit persists what was pending
                keptCustomers ==
                    IF sel.session = "commit" THEN pendingCustomers
                    ELSE customers
                keptConversations ==
                    IF sel.session = "commit"
                    THEN Append(conversations, incoming)
                    ELSE conversations
            IN  /\ ledger' = sel.ledger
                /\ IF outcome \in {"generate_raises", "send_fails"}
                   THEN \* routes.py:270-278: what is still pending is
                        \* rolled back
                        /\ customers' = keptCustomers
                        /\ conversations' = keptConversations
                        /\ last' = Call("process_incoming_message",
                                        sel.result, run.fault, "False")
                   ELSE IF sel.session = "rollback" /\ known = 0
                   THEN \* the outgoing record refers to a customer row that
                        \* was rolled back: the commit at line 267 fails and
                        \* line 277 rolls it back
                        /\ UNCHANGED <<customers, conversations>>
                        /\ last' = Call("process_incoming_message",
                                        sel.result, run.fault, "False")
                   ELSE \* routes.py:266-269
                        /\ customers' =
                              IF sel.session = "rollback" THEN customers
                              ELSE pendingCustomers
                        /\ conversations' =
                              IF sel.session = "rollback"
                              THEN Append(conversations, outgoing)
                              ELSE Append(Append(conversations, incoming),
                                          outgoing)
                        /\ last' = Call("process_incoming_message",
                                        sel.result, run.fault, "True")
    /\ UNCHANGED <<learner, sales, workers, funnelVars>>

\* routes.py:177-278 with the number of stored records bounded by limit
process_incoming_message_upto(limit) ==
    /\ learner = "ready"
    /\ AttemptsLeft
    /\ Len(conversations) + 2 <= limit
    /\ \/ \* routes.py:230-236 raise before the selector runs: line 277 rolls
          \* the pending customer and incoming record back
          /\ last' = Call("process_incoming_message", NoStrategy,
                          "analysis_raises", "False")
          /\ UNCHANGED <<ledger, customers, conversations>>
       \/ \E phone \in Phones, sentiment \in Sentiments :
          \E run \in SelectorRuns(ledger, sentiment) :
          \E outcome \in Outcomes \ {"analysis_raises"} :
            LET known == CustomerOf(customers, phone)
                id == IF known = 0 THEN Len(customers) + 1 ELSE known
                \* routes.py:189-203
                pendingCustomers ==
                    IF known = 0
                    THEN Append(customers,
                                [whatsapp_number |-> phone,
                                 total_interactions |-> 1,
                                 purchased |-> FALSE])
                    ELSE [customers EXCEPT ![known].total_interactions = @ + 1]
                \* routes.py:206-213 and 233
                incoming == [customer_id |-> id, message_type |-> "incoming",
                             ai_strategy |-> NoStrategy,
                             sentiment_score |-> sentiment]
                \* routes.py:239
                sel == run.r
                \* routes.py:254-261
                outgoing == [customer_id |-> id, message_type |-> "outgoing",
                             ai_strategy |-> sel.result,
                             sentiment_score |-> NoSentiment]
                \* the selector's commit persists what was pending
                keptCustomers ==
                    IF sel.session = "commit" THEN pendingCustomers
                    ELSE customers
                keptConversations ==
                    IF sel.session = "commit"
                    THEN Append(conversations, incoming)
                    ELSE conversations
            IN  /\ ledger' = sel.ledger
                /\ IF outcome \in {"generate_raises", "send_fails"}
                   THEN \* routes.py:270-278: what is still pending is
                        \* rolled back
                        /\ customers' = keptCustomers
                        /\ conversations' = keptConversations
                        /\ last' = Call("process_incoming_message",
                                        sel.result, run.fault, "False")
                   ELSE IF sel.session = "rollback" /\ known = 0
                   THEN \* the outgoing record refers to a customer row that
                        \* was rolled back: the commit at line 267 fails and
                        \* line 277 rolls it back
                        /\ UNCHANGED <<customers, conversations>>
                        /\ last' = Call("process_incoming_message",
                                        sel.result, run.fault, "False")
                   ELSE \* routes.py:266-269
                        /\ customers' =
                              IF sel.session = "rollback" THEN customers
                              ELSE pendingCustomers
                        /\ conversations' =
                              IF sel.session = "rollback"
                              THEN Append(conversations, outgoing)
                              ELSE Append(Append(conversations, incoming),
                                          outgoing)
                        /\ last' = Call("process_incoming_message",
                                        sel.result, run.fault, "True")
    /\ UNCHANGED <<learner, sales, workers, funnelVars>>

process_incoming_message == process_incoming_message_upto(MaxConversations)

\* a message handed to process_incoming_message on its own
ProcessIncomingMessage ==
    /\ process_incoming_message
    /\ UNCHANGED webhooks

Next ==
    \/ Construct
    \/ GetBestStrategy
    \/ RecordSuccess
    \/ RecordFailure
    \/ SimulateSale
    \/ ProcessIncomingMessage

Spec == Init /\ [][Next]_vars

(***************************************************************************)
(* Concurrent requests on one strategy row.                                *)
(* Each request has its own session.  The ORM loads the row, computes the  *)
(* new column values in Python from what it loaded, and its commit issues  *)
(* UPDATE ... SET column = <computed value> for the columns it changed     *)
(* (reinforcement_learning.py:160-164 and 196-205); nothing locks the row  *)
(* between the load and the commit.                                        *)
(***************************************************************************)
Workers == 1..NumWorkers

WorkerOps == {"_update_attempt_count", "record_success"}

\* the state one successful turn with a failing reply leaves behind
InitConc ==
    /\ learner = "ready"
    /\ ledger = AddMissing(<<>>, 1)
    /\ customers = <<[whatsapp_number |-> "5511900000001",
                      total_interactions |-> 1, purchased |-> FALSE]>>
    /\ conversations = <<[customer_id |-> 1, message_type |-> "incoming",
                          ai_strategy |-> NoStrategy,
                          sentiment_score |-> <<1, 2>>]>>
    /\ sales = <<>>
    /\ webhooks = NoWebhooks
    /\ last = Call("none", NoStrategy, "none", "none")
    /\ workers \in [Workers ->
                      [pc : {"start"}, op : WorkerOps,
                       strategy : {"consultivo", "escassez"},
                       seen : {NewRow("-")}]]
    /\ FunnelIdle

\* the request loads the row of its strategy into its session
Load(w) ==
    /\ workers[w].pc = "start"
    /\ workers' = [workers EXCEPT
                     ![w].pc = "loaded",
                     ![w].seen = ledger[FirstRow(ledger, workers[w].strategy)]]
    /\ UNCHANGED <<learner, ledger, customers, conversations, sales, last, webhooks, funnelVars>>

\* the request commits the columns it changed, computed from what it loaded
Commit(w) ==
    /\ workers[w].pc = "loaded"
    /\ LET i == FirstRow(ledger, workers[w].strategy)
           seen == workers[w].seen
       IN  ledger' =
             IF workers[w].op = "_update_attempt_count"
             THEN [ledger EXCEPT ![i].total_attempts = seen.total_attempts + 1]
             ELSE [ledger EXCEPT ![i] =
                     [@ EXCEPT
                        !.success_count = seen.success_count + 1,
                        !.success_rate = Frac(seen.success_count + 1,
                                              seen.total_attempts),
                        !.customer_sentiment =
                            AverageSentiment(conversations, 1),
                        !.context_keywords = {}]]
    /\ workers' = [workers EXCEPT ![w].pc = "done"]
    /\ UNCHANGED <<learner, customers, conversations, sales, last, webhooks, funnelVars>>

NextConc == \E w \in Workers : Load(w) \/ Commit(w)

SpecConc == InitConc /\ [][NextConc]_vars

(***************************************************************************)
(* The funnel driven message by message.                                   *)
(* The agent returns funnel_state_update and product_id_to_select as       *)
(* instructions for the caller (ai_agent.py:100); ApplyPayload is the      *)
(* caller's part: it stores them in the customer row.                      *)
(***************************************************************************)
\* learner and tables as before the first request
LearnerIdle ==
    /\ learner = "none"
    /\ ledger = <<>>
    /\ customers = <<>>
    /\ conversations = <<>>
    /\ sales = <<>>
    /\ webhooks = NoWebhooks
    /\ last = Call("none", NoStrategy, "none", "none")
    /\ workers = <<>>

\* a constructor that does not test the credential
AIAgent_unconfigured(api_key) == "ready"

\* ai_agent.py:15-56: the agent, or Raised for the ValueError of line 20
AIAgent(api_key) == IF ~api_key THEN Raised ELSE "ready"

\* the customer row after the caller stored the instructions of the payload
ApplyPayload(customer, payload) ==
    IF payload.raised THEN customer
    ELSE [funnel_state |-> payload.funnel_state_update,
          selected_product_id |->
              IF payload.product_id_to_select # NoProduct
              THEN payload.product_id_to_select
              ELSE customer.selected_product_id]

\* the state generate_response dispatches on
CurrentState(customer) ==
    IF customer.funnel_state \in {Null, ""} THEN "start"
    ELSE customer.funnel_state

\* one call of generate_response, recorded
Dispatched(op, customer, history, tactic, api) ==
    LET payload == generate_response(customer, history, tactic, api)
    IN  Turn(op, CurrentState(customer), history,
             IF payload.completions > 0 THEN api ELSE NoCompletion,
             payload, ~payload.raised)

InitFunnel ==
    /\ LearnerIdle
    /\ environ \in BOOLEAN
    /\ ai_agent = "none"
    /\ products = <<>>
    /\ lead = NewLead
    /\ turn = NoTurn

\* routes.py:18-23: ai_agent = AIAgent(); when the constructor raises the
\* global keeps its value
InitHandlers ==
    /\ ai_agent' = IF AIAgent(environ) = Raised THEN ai_agent
                   ELSE AIAgent(environ)
    /\ turn' = Turn("init_handlers", Null, <<>>, NoCompletion,
                    Payload(Null, <<>>, Null), AIAgent(environ) # Raised)
    /\ UNCHANGED <<learnerVars, environ, products, lead>>

\* routes.py:348-390
NewProduct ==
    /\ Len(products) < MaxProducts
    /\ products' = Append(products, Product(Len(products) + 1, TRUE))
    /\ UNCHANGED <<learnerVars, environ, ai_agent, lead, turn>>

\* routes.py:436-452
DeleteProduct ==
    \E id \in 1..Len(products) :
        /\ products[id].is_active
        /\ products' = [products EXCEPT ![id].is_active = FALSE]
        /\ UNCHANGED <<learnerVars, environ, ai_agent, lead, turn>>

\* the distinct ways generate_response can end for the customer, over the
\* histories, the tactic and the completion outcome
Dispatches(op, customer, histories) ==
    {Dispatched(op, customer, history, tactic, api) :
        history \in histories, tactic \in Tactics, api \in Completions}

\* an inbound message: the agent answers it and the caller stores the
\* instructions; without an agent ai_agent.generate_response raises
FunnelTurn ==
    /\ IF ai_agent = "ready"
       THEN \E t \in Dispatches("message", lead,
                                 {<<m>> : m \in Messages}) :
                /\ turn' = t
                /\ lead' = ApplyPayload(lead, t.payload)
       ELSE \E message \in Messages :
                /\ turn' = Turn("message", CurrentState(lead), <<message>>,
                                NoCompletion, Payload(Null, <<>>, Null),
                                FALSE)
                /\ lead' = lead
    /\ UNCHANGED <<learnerVars, environ, ai_agent, products>>

NextFunnel ==
    \/ InitHandlers
    \/ NewProduct
    \/ DeleteProduct
    \/ FunnelTurn

SpecFunnel == InitFunnel /\ [][NextFunnel]_vars

(***************************************************************************)
(* The handlers as functions of their inputs: the customer row, the        *)
(* catalogue, the history, the tactic and the completion outcome are drawn *)
(* from bounded sets and generate_response is applied to them.             *)
(***************************************************************************)
\* values of Customer.funnel_state: the keys of the dispatch table, the
\* values the handlers return, NULL, the empty string and an unknown name
FunnelStates ==
    state_handlers \cup
        {"completed", "awaiting_final_objection", Null, "", "pos_venda"}

Catalogues ==
    UNION {[1..n -> {Product(0, TRUE), Product(0, FALSE)}] : n \in 0..MaxProducts}

InitHandlerInputs ==
    /\ LearnerIdle
    /\ environ = TRUE
    /\ ai_agent = "ready"
    /\ products \in {[i \in 1..Len(c) |-> Product(i, c[i].is_active)] :
                        c \in Catalogues}
    /\ lead \in [funnel_state : FunnelStates,
                 selected_product_id : 0..(MaxProducts + 1)]
    /\ turn = NoTurn

\* a generate_response that stores the next state and the selected product
\* in the customer row itself
Dispatch_storing ==
    /\ turn = NoTurn
    /\ \E t \in Dispatches("generate_response", lead, Histories) :
          /\ turn' = t
          /\ lead' = ApplyPayload(lead, t.payload)
    /\ UNCHANGED <<learnerVars, environ, ai_agent, products>>

\* generate_response on the drawn inputs, once; it stores nothing
Dispatch ==
    /\ turn = NoTurn
    /\ turn' \in Dispatches("generate_response", lead, Histories)
    /\ UNCHANGED <<learnerVars, environ, ai_agent, products, lead>>

NextHandlers == Dispatch

SpecHandlers == InitHandlerInputs /\ [][NextHandlers]_vars

(***************************************************************************)
(* Properties of the strategy ledger and of the selector.                  *)
(* Where a property speaks of what one call does, it is stated for every   *)
(* call that can be made in the current state: the operator applied to the *)
(* current tables, for all of its inputs.                                  *)
(***************************************************************************)
Row(l, s) == l[FirstRow(l, s)]

HasRow(l, s) == FirstRow(l, s) # 0

ExactlyOnePerName(l) ==
    /\ Len(l) = Len(strategies)
    /\ \A s \in StrategySet :
          Cardinality({i \in 1..Len(l) : l[i].strategy_name = s}) = 1

\* C1: in every reachable ledger state every strategy record satisfies
\* success_count <= total_attempts and 0 <= success_rate <= 1.
C1_SuccessRateBound ==
    \A i \in 1..Len(ledger) :
        /\ ledger[i].success_count <= ledger[i].total_attempts
        /\ RLe(RZero, ledger[i].success_rate)
        /\ RLe(ledger[i].success_rate, ROne)

\* C2: on every reachable ledger, for every customer analysis, draw and
\* fault, get_best_strategy returns one of the four fixed strategy names;
\* so does every call that was made.
C2_ReturnsKnownStrategy ==
    /\ \A sentiment \in Sentiments :
          \A run \in SelectorRuns(ledger, sentiment) :
              run.r.result \in StrategySet
    /\ last.op = "get_best_strategy" => last.result \in StrategySet

C2_Witness ==
    /\ last.op = "get_best_strategy"
    /\ last.fault = "none"
    /\ last.result = "racional"
    /\ HasRow(ledger, "racional")
    /\ Row(ledger, "racional").total_attempts = 2

\* C3: running _initialize_strategies on any reachable ledger leaves exactly
\* one record per strategy name and changes no record that already exists,
\* and running it again changes nothing; every ledger an initialisation has
\* written holds exactly one record per name.
C3_InitIdempotent ==
    LET once == _initialize_strategies(ledger, "none").ledger
        twice == _initialize_strategies(once, "none").ledger
    IN  /\ ExactlyOnePerName(once)
        /\ Len(once) >= Len(ledger)
        /\ \A i \in 1..Len(ledger) : once[i] = ledger[i]
        /\ twice = once
        /\ (last.op = "_initialize_strategies" /\ last.result = "commit")
              => ExactlyOnePerName(ledger)

C3_Witness ==
    /\ last.op = "_initialize_strategies"
    /\ last.result = "commit"
    /\ ExactlyOnePerName(ledger)
    /\ SumAttempts(ledger) > Len(ledger)
    /\ SumSuccesses(ledger) > 0

\* the ledger a cold start leaves: the four strategies, each with
\* total_attempts = 1 and success_count = 0
IsFreshLedger(l) ==
    /\ Len(l) = 4
    /\ \A i \in 1..Len(l) :
          /\ l[i].strategy_name = strategies[i]
          /\ l[i].total_attempts = 1
          /\ l[i].success_count = 0

\* C4: when the ledger table is empty and storage does not fail,
\* get_best_strategy returns "consultivo" and leaves exactly the four
\* strategies, each with total_attempts = 1 and success_count = 0: no
\* attempt is recorded by that call.
C4_ColdStart ==
    ledger = <<>> =>
        \A sentiment \in Sentiments :
            \A run \in SelectorRuns(ledger, sentiment) :
                run.fault \notin {"load", "write"} =>
                    /\ run.r.result = "consultivo"
                    /\ IsFreshLedger(run.r.ledger)

\* with no fault a call on a non-empty ledger records an attempt, so a
\* ledger without any recorded attempt after such a call was a cold start
C4_Witness ==
    /\ last.op = "get_best_strategy"
    /\ last.fault = "none"
    /\ last.result = "consultivo"
    /\ IsFreshLedger(ledger)

\* C5: record_success for an existing customer and an existing strategy
\* record with counters (s, n) leaves total_attempts = n, sets
\* success_count = s + 1 and success_rate = (s + 1) / n, and leaves every
\* other record as it was.
C5_RecordSuccess ==
    \A customer_id \in 1..Len(customers), s \in StrategySet :
        HasRow(ledger, s) =>
            LET i == FirstRow(ledger, s)
                after == record_success(ledger, customers, conversations,
                                        customer_id, s, "none").ledger
            IN  /\ Len(after) = Len(ledger)
                /\ after[i].total_attempts = ledger[i].total_attempts
                /\ after[i].success_count = ledger[i].success_count + 1
                /\ after[i].success_rate[1] * ledger[i].total_attempts
                      = (ledger[i].success_count + 1) * after[i].success_rate[2]
                /\ \A j \in 1..Len(ledger) : j # i => after[j] = ledger[j]

C5_Witness ==
    /\ last.op = "record_success"
    /\ last.strategy = "escassez"
    /\ last.fault = "none"
    /\ last.result = "commit"
    /\ HasRow(ledger, "escassez")
    /\ Row(ledger, "escassez").total_attempts = 3
    /\ Row(ledger, "escassez").success_count = 2
    /\ Row(ledger, "escassez").success_rate = <<2, 3>>

\* C6: in every reachable state each record satisfies
\* success_rate = success_count / total_attempts.
C6_RateConsistent ==
    \A i \in 1..Len(ledger) :
        ledger[i].success_rate[1] * ledger[i].total_attempts
            = ledger[i].success_count * ledger[i].success_rate[2]

\* C7: on a non-empty ledger, a get_best_strategy call without a fault
\* increases total_attempts of exactly the returned strategy by exactly 1
\* and leaves total_attempts of every other record and every other column
\* of every record unchanged.
C7_AttemptRecorded ==
    ledger # <<>> =>
        \A sentiment \in Sentiments :
            \A run \in SelectorRuns(ledger, sentiment) :
                run.fault = "none" =>
                    /\ HasRow(ledger, run.r.result)
                    /\ Len(run.r.ledger) = Len(ledger)
                    /\ \A j \in 1..Len(ledger) :
                          /\ run.r.ledger[j].total_attempts =
                                ledger[j].total_attempts +
                                (IF ledger[j].strategy_name = run.r.result
                                 THEN 1 ELSE 0)
                          /\ run.r.ledger[j] =
                                [ledger[j] EXCEPT !.total_attempts =
                                    run.r.ledger[j].total_attempts]

C7_Witness ==
    /\ last.op = "get_best_strategy"
    /\ last.fault = "none"
    /\ last.result = "emocional"
    /\ HasRow(ledger, "emocional")
    /\ Row(ledger, "emocional").total_attempts = 3

\* C8: record_failure changes neither success_count nor total_attempts of
\* any record; on the named record it only sets success_rate to
\* success_count / total_attempts; for a name without a record it changes
\* nothing and returns to the caller.
C8_RecordFailure ==
    \A s \in StrategyArgs \cup StrategySet :
        LET i == FirstRow(ledger, s)
            r == record_failure(ledger, s, "none")
        IN  /\ Len(r.ledger) = Len(ledger)
            /\ \A j \in 1..Len(ledger) :
                  /\ r.ledger[j].success_count = ledger[j].success_count
                  /\ r.ledger[j].total_attempts = ledger[j].total_attempts
                  /\ j # i => r.ledger[j] = ledger[j]
            /\ i # 0 =>
                  /\ r.ledger[i].success_rate[1] * ledger[i].total_attempts
                        = ledger[i].success_count * r.ledger[i].success_rate[2]
                  /\ r.ledger[i] =
                        [ledger[i] EXCEPT !.success_rate = r.ledger[i].success_rate]
            /\ i = 0 => r.ledger = ledger

C8_Witness ==
    /\ last.op = "record_failure"
    /\ last.strategy = "escassez"
    /\ last.fault = "none"
    /\ HasRow(ledger, "escassez")
    /\ Row(ledger, "escassez").total_attempts = 2
    /\ Row(ledger, "escassez").success_count = 0
    /\ Row(ledger, "escassez").success_rate = RZero

\* C9: when k attempt updates and m record_success calls for the same
\* strategy run concurrently, in any interleaving of their loads and
\* commits, the record ends with total_attempts increased by exactly k and
\* success_count increased by exactly m.
C9_NoLostUpdates ==
    (\A w \in Workers : workers[w].pc = "done") =>
        \A s \in {"consultivo", "escassez"} :
            /\ Row(ledger, s).total_attempts =
                  1 + Cardinality({w \in Workers :
                        /\ workers[w].strategy = s
                        /\ workers[w].op = "_update_attempt_count"})
            /\ Row(ledger, s).success_count =
                  Cardinality({w \in Workers :
                        /\ workers[w].strategy = s
                        /\ workers[w].op = "record_success"})

C11_EveryUpdateHasHandler ==
    (turn.op = "generate_response" /\ turn.answered)
        => turn.payload.funnel_state_update \in state_handlers

\* C12 as first stated: from state start, the message "Ver Cursos" is
\* answered with the product list and next state awaiting_product_selection.
C12_ListFromStart ==
    (/\ turn.op = "message"
     /\ turn.answered
     /\ turn.state = "start"
     /\ turn.history = <<(<<"Ver", "Cursos">>)>>)
        => /\ turn.payload.text = ProductListText
           /\ turn.payload.funnel_state_update = "awaiting_product_selection"

\* C12: with the caller storing the returned instructions: from state start
\* every message, "Ver Cursos" included, is answered with the welcome and
\* next state awaiting_choice; from awaiting_choice, "Ver Cursos" is
\* answered, when an active product exists, with the product list and next
\* state awaiting_product_selection; from there a message whose last token
\* is the id of an existing product returns product_id_to_select equal to
\* that id and next state specialist_intro.
C12_FunnelProgress ==
    \A tactic \in Tactics, api \in Completions :
        /\ CurrentState(lead) = "start" =>
              \A m \in Messages :
                  LET p == generate_response(lead, <<m>>, tactic, api)
                  IN  /\ p = _handle_start(lead, <<m>>, tactic, api)
                      /\ p.funnel_state_update = "awaiting_choice"
                      /\ Len(p.buttons) = 3
        /\ (CurrentState(lead) = "awaiting_choice" /\ ActiveProducts # <<>>) =>
              LET p == generate_response(lead, <<(<<"Ver", "Cursos">>)>>,
                                         tactic, api)
              IN  /\ ~p.raised
                  /\ p.text = ProductListText
                  /\ p.buttons = ProductButtons
                  /\ p.product_id_to_select = NoProduct
                  /\ ApplyPayload(lead, p).funnel_state =
                        "awaiting_product_selection"
        /\ CurrentState(lead) = "awaiting_product_selection" =>
              \A id \in 1..Len(products) :
                  LET p == generate_response(
                              lead,
                              <<(<<"Quero", "saber", "sobre", "o", "curso",
                                   ToString(id)>>)>>,
                              tactic, api)
                  IN  /\ ~p.raised
                      /\ p.product_id_to_select = id
                      /\ p.funnel_state_update = "specialist_intro"
                      /\ ApplyPayload(lead, p) =
                            [funnel_state |-> "specialist_intro",
                             selected_product_id |-> id]

C12_Witness ==
    /\ turn.op = "message"
    /\ turn.state = "awaiting_product_selection"
    /\ turn.history = <<(<<"Quero", "saber", "sobre", "o", "curso", "2">>)>>
    /\ turn.payload.product_id_to_select = 2
    /\ lead = [funnel_state |-> "specialist_intro", selected_product_id |-> 2]

\* the last token of the message a handler reads is not the decimal id of a
\* product of the catalogue: it is no integer, or it names no product
NamesNoProduct(history) ==
    LET last_message == LastMessage(history)
    IN  last_message[Len(last_message)] \notin
            {ToString(id) : id \in 1..Len(products)}

\* C13 as first stated: in awaiting_product_selection a message whose last
\* token is no integer or names no product is answered, for every
\* catalogue, without raising, without product_id_to_select, with the
\* product list and next state awaiting_product_selection.
C13_UnparsableAlwaysRelists ==
    (/\ turn.op = "generate_response"
     /\ turn.state = "awaiting_product_selection"
     /\ NamesNoProduct(turn.history))
        => /\ ~turn.payload.raised
           /\ turn.payload.product_id_to_select = NoProduct
           /\ turn.payload.text = ProductListText
           /\ turn.payload.funnel_state_update = "awaiting_product_selection"

\* C13: in awaiting_product_selection a message whose last token is no
\* integer or names no product is answered without raising and without
\* product_id_to_select; when the catalogue holds an active product the
\* answer is the product list with next state awaiting_product_selection,
\* and when it holds none the answer is the default payload with the
\* catalogue notice and next state start.
C13_UnparsableSelection ==
    (/\ turn.op = "generate_response"
     /\ turn.state = "awaiting_product_selection"
     /\ NamesNoProduct(turn.history))
        => /\ ~turn.payload.raised
           /\ turn.payload.product_id_to_select = NoProduct
           /\ turn.payload.completions = 0
           /\ ActiveProducts # <<>> =>
                 /\ turn.payload.text = ProductListText
                 /\ turn.payload.buttons = ProductButtons
                 /\ turn.payload.funnel_state_update =
                       "awaiting_product_selection"
           /\ ActiveProducts = <<>> =>
                 /\ turn.payload.text =
                       "No momento, estamos atualizando nosso catálogo."
                 /\ turn.payload.funnel_state_update = "start"

C13_Witness ==
    /\ turn.op = "generate_response"
    /\ turn.state = "awaiting_product_selection"
    /\ turn.history = <<(<<"quero", "o", "curso", "2.">>)>>
    /\ Len(products) = 2
    /\ products[2].is_active
    /\ turn.payload.funnel_state_update = "awaiting_product_selection"

\* the specialist_* states and the states entered from them
SpecialistStates ==
    { "specialist_intro", "specialist_offer", "specialist_problem",
      "specialist_followup", "specialist_success", "awaiting_offer_choice",
      "awaiting_purchase_outcome", "awaiting_problem_category",
      "awaiting_specific_description" }

\* C14: in every state reached from start by inbound messages, with the
\* caller storing the returned instructions, a customer in a specialist_*
\* state or in a state entered from one has selected_product_id set to the
\* id of an existing product.
C14_ProductSelectedInSpecialistStates ==
    lead.funnel_state \in SpecialistStates
        => /\ lead.selected_product_id # NoProduct
           /\ ProductExists(lead.selected_product_id)

C14_Witness ==
    /\ lead.funnel_state = "awaiting_specific_description"
    /\ lead.selected_product_id = 2
    /\ ~products[2].is_active
    /\ turn.state = "awaiting_problem_category"

\* the dispatched state hands the message to a handler that looks the
\* selected product up
NeedsProduct(state, history) ==
    \/ state \in {"specialist_intro", "specialist_offer",
                  "specialist_followup", "awaiting_problem_category",
                  "awaiting_specific_description"}
    \/ /\ state = "awaiting_offer_choice"
       /\ Contains(LastMessage(history), "oferta")
    \/ /\ state = "awaiting_purchase_outcome"
       /\ ~Contains(LastMessage(history), "comprei")
       /\ ~Contains(LastMessage(history), "problema")

\* C15: when selected_product_id is null or names no product, every handler
\* that needs the product returns, without raising and without a call to
\* the completion service, the default payload with a product-not-found
\* text and next state start.
C15_MissingProductDegrades ==
    (/\ turn.op = "generate_response"
     /\ NeedsProduct(turn.state, turn.history)
     /\ ~ProductExists(lead.selected_product_id))
        => /\ ~turn.payload.raised
           /\ turn.answered
           /\ turn.payload.completions = 0
           /\ turn.payload.text \in
                 {ProductNotFound, "Produto não encontrado para triagem."}
           /\ turn.payload.funnel_state_update = "start"
           /\ turn.payload.product_id_to_select = NoProduct
           /\ turn.payload.buttons =
                 _handle_default(lead, turn.history, NoStrategy,
                                 NoCompletion, Null).buttons

C15_Witness ==
    /\ turn.op = "generate_response"
    /\ turn.state = "awaiting_purchase_outcome"
    /\ turn.history = <<(<<"oi">>)>>
    /\ lead.selected_product_id = NoProduct
    /\ turn.payload.text = ProductNotFound
    /\ turn.payload.funnel_state_update = "start"

\* the completion call fails: exception or timeout, empty body, or a body
\* that is not JSON
FailedCompletions ==
    {api \in Completions : api.raises \/ api.body \in {"", "oi"}}

\* the completion call succeeds: a JSON object with a text
GoodCompletions ==
    {api \in Completions :
        ~api.raises /\ api.body = "{\"text\": \"Oferta especial\"}"}

\* C16: in every state that asks the completion service, for the same
\* customer, catalogue, history and tactic, the funnel_state_update returned
\* when the completion call fails equals the one returned when it
\* succeeds, and the call is answered in both cases.
C16_DegradedKeepsTransition ==
    \A history \in Histories, tactic \in Tactics :
        \A good \in GoodCompletions, failed \in FailedCompletions :
            LET p == generate_response(lead, history, tactic, good)
                q == generate_response(lead, history, tactic, failed)
            IN  p.completions > 0 =>
                    /\ ~p.raised
                    /\ ~q.raised
                    /\ q.completions = p.completions
                    /\ q.funnel_state_update = p.funnel_state_update
                    /\ q.buttons = p.buttons
                    /\ q.text = FallbackText

C16_Witness ==
    /\ turn.op = "generate_response"
    /\ turn.state = "awaiting_offer_choice"
    /\ turn.api.raises
    /\ turn.payload.completions = 1
    /\ turn.payload.text = FallbackText
    /\ turn.payload.funnel_state_update = "awaiting_purchase_outcome"

\* C17: for every completion outcome the model-assisted handlers return,
\* without raising, a payload whose text is a non-empty string.
C17_CompletionNeverRaisesNorEmpty ==
    (turn.op = "generate_response" /\ turn.payload.completions > 0)
        => /\ ~turn.payload.raised
           /\ turn.payload.text \notin {Null, ""}

\* the records of the conversation log of a customer with that direction
TurnRecords(id, direction) ==
    {i \in 1..Len(conversations) :
        /\ conversations[i].customer_id = id
        /\ conversations[i].message_type = direction}

\* C18: after process_incoming_message returned, the log of every customer
\* holds an outgoing record for each incoming record and the reverse, and
\* no customer row or interaction count is stored without the outgoing
\* record of its turn.
C18_TurnAtomicity ==
    /\ \A i \in 1..Len(conversations) :
          Cardinality(TurnRecords(conversations[i].customer_id, "incoming"))
              = Cardinality(TurnRecords(conversations[i].customer_id,
                                        "outgoing"))
    /\ \A id \in 1..Len(customers) :
          customers[id].total_interactions
              = Cardinality(TurnRecords(id, "outgoing"))

\* C19: without the credential AIAgent() raises: init_handlers leaves no
\* agent, and no inbound message is answered.
C19_ConfigurationErrorIsFatal ==
    ~environ =>
        /\ AIAgent(environ) = Raised
        /\ ai_agent = "none"
        /\ turn.op \in {"init_handlers", "message"} => ~turn.answered
        /\ lead = NewLead

C19_Witness ==
    /\ ~environ
    /\ turn.op = "init_handlers"
    /\ ~turn.answered
    /\ ai_agent = "none"

\* C20: in awaiting_purchase_outcome, with the selected product existing, a
\* message with neither "comprei" nor "problema" is answered by the
\* completion service prompted with the tactic, and the next state is
\* awaiting_purchase_outcome or completed.
C20_ObjectionKeepsFunnel ==
    (/\ turn.op = "generate_response"
     /\ turn.answered
     /\ turn.state = "awaiting_purchase_outcome"
     /\ ProductExists(lead.selected_product_id)
     /\ ~Contains(LastMessage(turn.history), "comprei")
     /\ ~Contains(LastMessage(turn.history), "problema"))
        => /\ turn.payload.completions = 1
           /\ turn.payload.prompt_tactic \in Tactics
           /\ turn.payload.funnel_state_update \in
                 {"awaiting_purchase_outcome", "completed"}

(***************************************************************************)
(* Properties of the routing handlers and of the dispatch.                 *)
(***************************************************************************)
\* C21 as first stated: in awaiting_choice the lowercased last message is
\* routed by the first rule that matches: "ver cursos" gives the product
\* list and next state awaiting_product_selection; else "preço" or "valor"
\* gives the pricing summary and next state awaiting_choice; else
\* "whatsapp" gives the redirect and next state completed; else, an empty
\* history included, the fallback and next state start.
C21_RoutingByKeyword ==
    (turn.op = "generate_response" /\ turn.state = "awaiting_choice") =>
        LET m == LastMessage(turn.history)
            p == turn.payload
            list == ContainsPhrase(m, "ver", "cursos")
            price == Contains(m, "preço") \/ Contains(m, "valor")
            redirect == Contains(m, "whatsapp")
        IN  /\ list =>
                  /\ p.text = ProductListText
                  /\ p.funnel_state_update = "awaiting_product_selection"
            /\ (~list /\ price) =>
                  /\ p = _handle_get_price(lead, turn.history, NoStrategy,
                                           NoCompletion)
                  /\ p.funnel_state_update = "awaiting_choice"
            /\ (~list /\ ~price /\ redirect) =>
                  /\ p = _handle_whatsapp_redirect(lead, turn.history,
                                                   NoStrategy, NoCompletion)
                  /\ p.funnel_state_update = "completed"
            /\ (~list /\ ~price /\ ~redirect) =>
                  /\ p.text = DefaultText
                  /\ p.funnel_state_update = "start"

\* C21: in awaiting_choice the lowercased last message is routed by the
\* first rule that matches: "ver cursos" gives, when an active product
\* exists, the product list and next state awaiting_product_selection, and
\* with no active product the default payload with the catalogue notice and
\* next state start; else "preço" or "valor" gives the pricing summary and
\* next state awaiting_choice; else "whatsapp" gives the redirect and next
\* state completed; else, an empty history included, the fallback and next
\* state start.  The button value "Ver Cursos" and the upper-case
\* "VER CURSOS e o valor" are listings, "Preço e WhatsApp?" is a pricing.
C21_RoutingPriority ==
    (turn.op = "generate_response" /\ turn.state = "awaiting_choice") =>
        LET m == LastMessage(turn.history)
            p == turn.payload
            list == ContainsPhrase(m, "ver", "cursos")
            price == Contains(m, "preço") \/ Contains(m, "valor")
            redirect == Contains(m, "whatsapp")
        IN  /\ ~p.raised
            /\ p.completions = 0
            /\ (list /\ ActiveProducts # <<>>) =>
                  /\ p.text = ProductListText
                  /\ p.buttons = ProductButtons
                  /\ p.funnel_state_update = "awaiting_product_selection"
            /\ (list /\ ActiveProducts = <<>>) =>
                  /\ p.text = "No momento, estamos atualizando nosso catálogo."
                  /\ p.funnel_state_update = "start"
            /\ (~list /\ price) =>
                  /\ p = _handle_get_price(lead, turn.history, NoStrategy,
                                           NoCompletion)
                  /\ p.funnel_state_update = "awaiting_choice"
            /\ (~list /\ ~price /\ redirect) =>
                  /\ p = _handle_whatsapp_redirect(lead, turn.history,
                                                   NoStrategy, NoCompletion)
                  /\ p.funnel_state_update = "completed"
            /\ (~list /\ ~price /\ ~redirect) =>
                  /\ p.text = DefaultText
                  /\ p.funnel_state_update = "start"
            /\ (/\ m \in {<<"Ver", "Cursos">>,
                          <<"VER", "CURSOS", "e", "o", "valor">>}
                /\ ActiveProducts # <<>>) =>
                  p.funnel_state_update = "awaiting_product_selection"
            /\ m = <<"Preço", "e", "WhatsApp?">> =>
                  p.funnel_state_update = "awaiting_choice"
            /\ turn.history = <<>> => p.funnel_state_update = "start"

C21_Witness ==
    /\ turn.op = "generate_response"
    /\ turn.state = "awaiting_choice"
    /\ turn.history = <<(<<"VER", "CURSOS", "e", "o", "valor">>)>>
    /\ ActiveProducts # <<>>
    /\ turn.payload.funnel_state_update = "awaiting_product_selection"

\* C22: in awaiting_purchase_outcome a message containing "comprei", also
\* one that contains "problema" as well, is answered with the
\* congratulation and next state completed; a message containing "problema"
\* and not "comprei" is answered with the triage question, its three
\* buttons and next state awaiting_problem_category; neither answer calls
\* the completion service nor depends on the selected product.
C22_PurchaseOutcomeRouting ==
    (turn.op = "generate_response"
     /\ turn.state = "awaiting_purchase_outcome") =>
        LET m == LastMessage(turn.history)
            p == turn.payload
        IN  /\ Contains(m, "comprei") =>
                  /\ ~p.raised
                  /\ p.text =
                        "Parabéns pela sua decisão e seja muito bem-vindo(a) à comunidade!"
                  /\ p.buttons = <<>>
                  /\ p.funnel_state_update = "completed"
                  /\ p.completions = 0
            /\ (~Contains(m, "comprei") /\ Contains(m, "problema")) =>
                  /\ ~p.raised
                  /\ p.text =
                        "Sem problemas, estou aqui para ajudar! Para eu entender melhor, o seu problema está relacionado a quê?"
                  /\ Len(p.buttons) = 3
                  /\ p.funnel_state_update = "awaiting_problem_category"
                  /\ p.completions = 0
            /\ m \in {<<"Já", "comprei!">>,
                      <<"comprei", "mas", "tive", "um", "problema">>} =>
                  p.funnel_state_update = "completed"
            /\ m = <<"Tive", "um", "problema">> =>
                  p.funnel_state_update = "awaiting_problem_category"

C22_Witness ==
    /\ turn.op = "generate_response"
    /\ turn.state = "awaiting_purchase_outcome"
    /\ turn.history = <<(<<"comprei", "mas", "tive", "um", "problema">>)>>
    /\ turn.payload.funnel_state_update = "completed"
    /\ turn.payload.completions = 0

\* the answers of the triage: a new payment link with the way to support,
\* a refreshed link, the request for a description
PaymentAnswer(p) ==
    /\ p.text = "Entendi, problemas com pagamento acontecem."
    /\ Len(p.buttons) = 2
    /\ p.funnel_state_update = "awaiting_purchase_outcome"

LinkAnswer(p) ==
    /\ p.text = "Claro! Às vezes o cupom precisa ser reaplicado ou o link expira."
    /\ Len(p.buttons) = 1
    /\ p.funnel_state_update = "awaiting_purchase_outcome"

DescriptionAnswer(p) ==
    /\ p.buttons = <<>>
    /\ p.funnel_state_update = "awaiting_specific_description"

\* C23: in awaiting_problem_category, with the selected product existing, a
\* message containing "pagamento" is answered with the payment answer and
\* next state awaiting_purchase_outcome; else one containing "link" or
\* "cupom" with the link answer and next state awaiting_purchase_outcome;
\* every other message with the request for a description and next state
\* awaiting_specific_description; no completion is called.  The values of
\* the three buttons of specialist_problem reach, in their order, the
\* payment answer, the link answer and the request for a description.
C23_TriageRouting ==
    /\ (/\ turn.op = "generate_response"
        /\ turn.state = "awaiting_problem_category"
        /\ ProductExists(lead.selected_product_id)) =>
          LET m == LastMessage(turn.history)
              p == turn.payload
              payment == Contains(m, "pagamento")
              link == Contains(m, "link") \/ Contains(m, "cupom")
          IN  /\ ~p.raised
              /\ p.completions = 0
              /\ payment => PaymentAnswer(p)
              /\ (~payment /\ link) => LinkAnswer(p)
              /\ (~payment /\ ~link) => DescriptionAnswer(p)
    /\ \A id \in 1..Len(products), tactic \in Tactics, api \in Completions :
          LET customer == [funnel_state |-> "awaiting_problem_category",
                           selected_product_id |-> id]
              buttons == _handle_specialist_problem(customer, <<>>, tactic,
                                                    api).buttons
              answer(k) == generate_response(customer, <<buttons[k].value>>,
                                             tactic, api)
          IN  /\ Len(buttons) = 3
              /\ PaymentAnswer(answer(1))
              /\ LinkAnswer(answer(2))
              /\ DescriptionAnswer(answer(3))

C23_Witness ==
    /\ turn.op = "generate_response"
    /\ turn.state = "awaiting_problem_category"
    /\ ProductExists(lead.selected_product_id)
    /\ turn.history = <<(<<"problema", "link", "cupom">>)>>
    /\ LinkAnswer(turn.payload)

\* the nudge of awaiting_offer_choice
NudgeAnswer(p) ==
    /\ ~p.raised
    /\ p.text =
          "Entendido. Quando estiver pronto para ver a oferta especial que preparei para ti, é só avisar!"
    /\ p.buttons = <<Button("Estou pronto, quero a oferta!",
                            <<"Quero", "a", "oferta">>)>>
    /\ p.funnel_state_update = "awaiting_offer_choice"
    /\ p.completions = 0

C25_DispatchDefaults ==
    turn.op = "generate_response" =>
        LET p == turn.payload
        IN  /\ lead.funnel_state \in {Null, ""} =>
                  /\ ~p.raised
                  /\ p = _handle_start(lead, turn.history, NoStrategy,
                                       NoCompletion)
                  /\ p.text =
                        "Olá! Sou da Comunidade ATP. Como posso te ajudar hoje?"
                  /\ Len(p.buttons) = 3
                  /\ p.funnel_state_update = "awaiting_choice"
                  /\ p.completions = 0
            /\ lead.funnel_state \notin (state_handlers \cup {Null, ""}) =>
                  /\ ~p.raised
                  /\ p.text = DefaultText
                  /\ Len(p.buttons) = 2
                  /\ p.product_id_to_select = NoProduct
                  /\ p.funnel_state_update = "start"
                  /\ p.completions = 0

C25_Witness ==
    /\ turn.op = "generate_response"
    /\ lead.funnel_state = Null
    /\ turn.history = <<(<<"Ver", "Cursos">>)>>
    /\ Len(turn.payload.buttons) = 3
    /\ turn.payload.funnel_state_update = "awaiting_choice"

TemplatedStates ==
    { "start", "awaiting_choice", "list_products", "get_price",
      "whatsapp_redirect", "specialist_intro", "specialist_problem",
      "specialist_success", "default" }

\* C27: one call of generate_response asks the completion service at most
\* once, whether the completion succeeds, fails or times out and whether
\* the handler returns or raises, and in the templated states (start,
\* awaiting_choice, list_products, get_price, whatsapp_redirect,
\* specialist_intro, specialist_problem, specialist_success, default) it
\* asks it not at all.
C27_NoRetry ==
    turn.op = "generate_response" =>
        /\ turn.payload.completions \in {0, 1}
        /\ turn.state \in TemplatedStates => turn.payload.completions = 0

C27_Witness ==
    /\ turn.op = "generate_response"
    /\ turn.state = "specialist_offer"
    /\ turn.api.raises
    /\ turn.answered
    /\ turn.payload.completions = 1
    /\ turn.payload.text = FallbackText

(***************************************************************************)
(* Properties of the scores and of the exploration rate.                   *)
(***************************************************************************)
\* C28: on every reachable ledger with records, for every customer analysis
\* and whether or not the similarity computation fails, the strategy
\* get_best_strategy returns on its exploit branch names a record whose
\* score success_rate + context bonus + min(0.1, total_attempts/100) is at
\* least the score of every record and greater than the score of every
\* record before it.
C28_ExploitIsArgMax ==
    ledger # <<>> =>
        \A sentiment \in Sentiments, k \in KeywordSets,
           fault \in {"none", "similarity"} :
            LET analysis == [sentiment |-> sentiment, keywords |-> k]
                r == get_best_strategy(ledger, analysis, FALSE, 0, fault)
                best == FirstRow(ledger, r.result)
            IN  /\ best # 0
                /\ \A j \in 1..Len(ledger) :
                      RLe(FinalScore(ledger[j], analysis, fault),
                          FinalScore(ledger[best], analysis, fault))
                /\ \A j \in 1..(best - 1) :
                      RLt(FinalScore(ledger[j], analysis, fault),
                          FinalScore(ledger[best], analysis, fault))

\* a selection returned escassez, and on the ledger it left the exploit
\* branch picks escassez again, a record that is not the first, ahead of
\* two records it ties with on the success rate
C28_Witness ==
    /\ last.op = "get_best_strategy"
    /\ last.fault = "none"
    /\ last.result = "escassez"
    /\ ExactlyOnePerName(ledger)
    /\ Row(ledger, "escassez").success_rate = Row(ledger, "emocional").success_rate
    /\ get_best_strategy(ledger, [sentiment |-> <<0, 1>>, keywords |-> {}],
                         FALSE, 0, "none").result = "escassez"

\* the bonus of the stated formula:
\* min(0.15, 0.02 * |stored keywords /\ current keywords|
\*            + 0.05 * max(0, 1 - |stored_sentiment - current_sentiment|))
StatedBonus(row, analysis) ==
    RMin(<<3, 20>>,
         RAdd(Frac(2 * Cardinality(row.context_keywords \cap analysis.keywords),
                   100),
              RMul(<<1, 20>>,
                   RMax(RZero,
                        RSub(ROne, RAbs(RSub(row.customer_sentiment,
                                             analysis.sentiment)))))))

\* C29: for every record of a reachable ledger, a stored sentiment of 0.0
\* included, and every customer analysis, _calculate_context_similarity
\* returns the bonus of the stated formula, and the bonus lies in [0, 0.15].
C29_ContextBonusFormula ==
    \A i \in 1..Len(ledger), sentiment \in Sentiments, k \in KeywordSets :
        LET analysis == [sentiment |-> sentiment, keywords |-> k]
            bonus == _calculate_context_similarity(ledger[i], analysis, "none")
        IN  /\ bonus = StatedBonus(ledger[i], analysis)
            /\ RLe(RZero, bonus)
            /\ RLe(bonus, <<3, 20>>)

\* C30: the exploration rate 0.2 * 0.95^(total_attempts/100) computed from
\* the ledger is positive and at most 0.2, it is smaller at 1000 attempts
\* than at 0, it is smaller after every step that adds an attempt, and no
\* step of an execution lowers the summed total_attempts or raises the rate.
C30_ExplorationDecays ==
    [][LET before == current_exploration_rate(SumAttempts(ledger))
           after == current_exploration_rate(SumAttempts(ledger'))
       IN  /\ PowPositive(after)
           /\ PowLeFactor(after)
           /\ PowLt(current_exploration_rate(1000),
                    current_exploration_rate(0))
           /\ SumAttempts(ledger) < SumAttempts(ledger') =>
                 PowLt(after, before)
           /\ SumAttempts(ledger) <= SumAttempts(ledger')
           /\ ~PowLt(before, after)]_vars

(***************************************************************************)
(* The statistics as a function of the ledger: the ledger is drawn from    *)
(* the ledgers the program can hold, the empty one (no initialisation was  *)
(* committed) or one record per strategy with counters the selector and    *)
(* the recorders can leave, and get_learning_statistics is applied to it.  *)
(***************************************************************************)
MaxCount == 2

\* the records of strategy s: the new one, and one for each pair of counters
StatisticsRows(s) ==
    {NewRow(s)} \cup
    {[NewRow(s) EXCEPT !.success_count = c,
                       !.total_attempts = a,
                       !.success_rate = Frac(c, a)] :
        c \in 0..MaxCount, a \in 1..MaxCount}

StatisticsLedgers ==
    {<<>>} \cup
    {[i \in 1..Len(strategies) |-> rows[i]] :
        rows \in [1..Len(strategies) ->
                    UNION {StatisticsRows(s) : s \in StrategySet}]}

InitStatistics ==
    /\ learner = "ready"
    /\ ledger \in {l \in StatisticsLedgers :
                      \A i \in 1..Len(l) : l[i].strategy_name = strategies[i]}
    /\ customers = <<>>
    /\ conversations = <<>>
    /\ sales = <<>>
    /\ webhooks = NoWebhooks
    /\ last = Call("none", NoStrategy, "none", "none")
    /\ workers = <<>>
    /\ FunnelIdle

\* routes.py:328-336: the statistics are read, nothing is stored
GetLearningStatistics ==
    /\ last.op = "none"
    /\ \E fault \in {"none", "load"} :
          LET stats == get_learning_statistics(ledger, fault)
          IN  last' = Call("get_learning_statistics", stats.best_strategy,
                           fault, stats.worst_strategy)
    /\ UNCHANGED <<learner, ledger, customers, conversations, sales, workers,
                   webhooks, funnelVars>>

NextStatistics == GetLearningStatistics

SpecStatistics == InitStatistics /\ [][NextStatistics]_vars

\* C31: on every ledger the program can hold, get_learning_statistics
\* reports total_attempts and total_successes equal to the sums over the
\* records, a best_strategy that names a record of maximal success_rate and
\* a worst_strategy that names a record of minimal success_rate.
C31_StatisticsConsistent ==
    LET stats == get_learning_statistics(ledger, "none")
    IN  /\ ~stats.error
        /\ stats.total_attempts = SumAttempts(ledger)
        /\ stats.total_successes = SumSuccesses(ledger)
        /\ \E i \in 1..Len(ledger) :
              /\ ledger[i].strategy_name = stats.best_strategy
              /\ \A j \in 1..Len(ledger) :
                    RLe(ledger[j].success_rate, ledger[i].success_rate)
        /\ \E i \in 1..Len(ledger) :
              /\ ledger[i].strategy_name = stats.worst_strategy
              /\ \A j \in 1..Len(ledger) :
                    RLe(ledger[i].success_rate, ledger[j].success_rate)

(***************************************************************************)
(* Concurrent inbound messages (routes.py:177-278): each worker handles    *)
(* one message in a session of its own.  A worker looks the customer up,   *)
(* inserts and flushes a row when it found none, and ends with a commit    *)
(* (the selector's commit or line 267) or with a rollback (lines 271,      *)
(* 277).  whatsapp_number is unique (models.py:35): an insert waits for a  *)
(* concurrent uncommitted insert of the same number and fails when a       *)
(* committed row has it.                                                   *)
(***************************************************************************)
Senders == {"5511900000001", "5511900000002"}

IdleWorker ==
    [pc |-> "idle", phone |-> Null, arrival |-> 0, known |-> 0, read |-> 0,
     created |-> FALSE]

\* messages of that number received so far
Received(ws, phone) ==
    Cardinality({w \in Workers : ws[w].pc # "idle" /\ ws[w].phone = phone})

InitGateway ==
    /\ learner = "ready"
    /\ ledger = AddMissing(<<>>, 1)
    /\ customers = <<>>
    /\ conversations = <<>>
    /\ sales = <<>>
    /\ webhooks = NoWebhooks
    /\ last = Call("none", NoStrategy, "none", "none")
    /\ workers = [w \in Workers |-> IdleWorker]
    /\ FunnelIdle

\* routes.py:125-165 and 177-186: the webhook hands the message over
Receive(w) ==
    /\ workers[w].pc = "idle"
    /\ \E phone \in Senders :
         workers' = [workers EXCEPT ![w] =
                        [@ EXCEPT !.pc = "lookup", !.phone = phone,
                                  !.arrival = Received(workers, phone) + 1]]
    /\ UNCHANGED <<learner, ledger, customers, conversations, sales, last,
                   webhooks, funnelVars>>

\* routes.py:189: the query sees the committed rows
Lookup(w) ==
    /\ workers[w].pc = "lookup"
    /\ LET known == CustomerOf(customers, workers[w].phone)
       IN  workers' = [workers EXCEPT ![w] =
                          [@ EXCEPT !.pc = IF known = 0 THEN "new" ELSE "found",
                                    !.known = known,
                                    !.read = IF known = 0 THEN 0
                                             ELSE customers[known].total_interactions]]
    /\ UNCHANGED <<learner, ledger, customers, conversations, sales, last,
                   webhooks, funnelVars>>

\* routes.py:191-200 without the unique constraint of models.py:35
Flush_unconstrained(w) ==
    /\ workers[w].pc = "new"
    /\ workers' = [workers EXCEPT ![w].pc = "pending"]
    /\ last' = Call("process_incoming_message", NoStrategy, "none", "flushed")
    /\ UNCHANGED <<learner, ledger, customers, conversations, sales,
                   webhooks, funnelVars>>

\* routes.py:191-200: db.session.add(customer); db.session.flush()
Flush(w) ==
    /\ workers[w].pc = "new"
    /\ \A v \in Workers \ {w} :
          ~(workers[v].pc = "pending" /\ workers[v].phone = workers[w].phone)
    /\ IF CustomerOf(customers, workers[w].phone) # 0
       THEN \* IntegrityError, caught at line 275: rollback, return False
            /\ workers' = [workers EXCEPT ![w].pc = "failed"]
            /\ last' = Call("process_incoming_message", NoStrategy,
                            "integrity", "False")
       ELSE /\ workers' = [workers EXCEPT ![w].pc = "pending"]
            /\ last' = Call("process_incoming_message", NoStrategy,
                            "none", "flushed")
    /\ UNCHANGED <<learner, ledger, customers, conversations, sales,
                   webhooks, funnelVars>>

\* routes.py:203 and the end of the session: commit or rollback
Finish(w) ==
    /\ workers[w].pc \in {"found", "pending"}
    /\ \E end \in {"commit", "rollback"} :
         IF end = "rollback"
         THEN /\ workers' = [workers EXCEPT ![w].pc = "failed"]
              /\ last' = Call("process_incoming_message", NoStrategy,
                              "rollback", "False")
              /\ UNCHANGED customers
         ELSE IF workers[w].pc = "pending"
         THEN /\ customers' = Append(customers,
                                [whatsapp_number |-> workers[w].phone,
                                 total_interactions |-> 1,
                                 purchased |-> FALSE])
              /\ workers' = [workers EXCEPT ![w] =
                                [@ EXCEPT !.pc = "done", !.created = TRUE]]
              /\ last' = Call("process_incoming_message", NoStrategy,
                              "none", "created")
         ELSE /\ customers' =
                    [customers EXCEPT ![workers[w].known].total_interactions =
                                          workers[w].read + 1]
              /\ workers' = [workers EXCEPT ![w].pc = "done"]
              /\ last' = Call("process_incoming_message", NoStrategy,
                              "none", "True")
    /\ UNCHANGED <<learner, ledger, conversations, sales, webhooks, funnelVars>>

NextGateway ==
    \E w \in Workers : Receive(w) \/ Lookup(w) \/ Flush(w) \/ Finish(w)

SpecGateway == InitGateway /\ [][NextGateway]_vars

\* C32 as stated: at most one row per number, and only the first message
\* received from a number creates its row.
C32_FirstMessageCreates ==
    /\ \A i, j \in 1..Len(customers) :
          customers[i].whatsapp_number = customers[j].whatsapp_number => i = j
    /\ \A w \in Workers : workers[w].created => workers[w].arrival = 1

\* C32: the customer table never holds two rows with the same
\* whatsapp_number, and a row is created only by a message whose number had
\* no committed row, by one message per number.
C32_OneCustomerPerNumber ==
    /\ \A i, j \in 1..Len(customers) :
          customers[i].whatsapp_number = customers[j].whatsapp_number => i = j
    /\ \A v, w \in Workers :
          workers[v].created /\ workers[w].created
          /\ workers[v].phone = workers[w].phone => v = w
    /\ \A w \in Workers :
          workers[w].created =>
             /\ workers[w].known = 0
             /\ CustomerOf(customers, workers[w].phone) # 0

\* two messages of one new number were both looked up before either row was
\* flushed, and one of them created the row
C32_Witness ==
    \E v, w \in Workers :
       /\ v # w
       /\ workers[v].phone = workers[w].phone
       /\ workers[v].created
       /\ workers[w].pc = "failed"
       /\ workers[w].known = 0
       /\ last.fault = "integrity"

(***************************************************************************)
(* The history handed to the agent (routes.py:205-227 and 240-242).        *)
(* The log of one customer is drawn, then one message is handled.          *)
(***************************************************************************)
MaxStored == 22         \* records stored before the message arrives
HistoryLimit == 20      \* routes.py:218, .limit(20)

\* models.py:54-61; timestamps grow with the order of insertion
StoredRecord(n) ==
    [customer_id |-> 1,
     message_type |-> IF n % 2 = 1 THEN "incoming" ELSE "outgoing",
     message_content |-> IF n % 2 = 1 THEN "oi" ELSE "reply",
     timestamp |-> n,
     ai_strategy |-> IF n % 2 = 1 THEN NoStrategy ELSE "consultivo"]

StoredLog(n) == [i \in 1..n |-> StoredRecord(i)]

\* order_by(Conversation.timestamp.asc()) on the rows of one customer
RECURSIVE OrderByTimestamp(_)
OrderByTimestamp(rows) ==
    IF rows = {} THEN <<>>
    ELSE LET first == CHOOSE r \in rows :
                         \A q \in rows : r.timestamp <= q.timestamp
         IN  <<first>> \o OrderByTimestamp(rows \ {first})

Limit(s, n) == SubSeq(s, 1, IF Len(s) < n THEN Len(s) ELSE n)

\* routes.py:216-218
conversation_history(convs, customer_id) ==
    Limit(OrderByTimestamp({convs[i] : i \in
              {j \in 1..Len(convs) : convs[j].customer_id = customer_id}}),
          HistoryLimit)

\* routes.py:220-227
ConversationDict(rows) ==
    [i \in 1..Len(rows) |->
        [message_type |-> rows[i].message_type,
         message_content |-> rows[i].message_content,
         timestamp |-> rows[i].timestamp,
         ai_strategy |-> rows[i].ai_strategy]]

HistoryTurn(incoming, history, outcome) ==
    [op |-> "process_incoming_message", incoming |-> incoming,
     history |-> history, outcome |-> outcome]

InitHistory ==
    /\ learner = "ready"
    /\ ledger = AddMissing(<<>>, 1)
    /\ \E n \in 0..(MaxStored \div 2) :
         /\ conversations = StoredLog(2 * n)
         /\ customers = IF n = 0 THEN <<>>
                        ELSE <<[whatsapp_number |-> "5511900000001",
                                total_interactions |-> n,
                                purchased |-> FALSE]>>
    /\ sales = <<>>
    /\ webhooks = NoWebhooks
    /\ last = Call("none", NoStrategy, "none", "none")
    /\ workers = <<>>
    /\ FunnelIdle

\* process_incoming_message, once, on the drawn log
HandleMessage ==
    /\ turn = NoTurn
    /\ \E text \in {"Ver Cursos", "oi", "valor", "WhatsApp"},
          outcome \in Outcomes \ {"analysis_raises"} :
         LET known == CustomerOf(customers, "5511900000001")
             pendingCustomers ==
                 IF known = 0
                 THEN <<[whatsapp_number |-> "5511900000001",
                         total_interactions |-> 1, purchased |-> FALSE]>>
                 ELSE [customers EXCEPT ![known].total_interactions = @ + 1]
             incoming == [customer_id |-> 1, message_type |-> "incoming",
                          message_content |-> text,
                          timestamp |-> Len(conversations) + 1,
                          ai_strategy |-> NoStrategy]
             flushed == Append(conversations, incoming)
             history == ConversationDict(conversation_history(flushed, 1))
             outgoing == [customer_id |-> 1, message_type |-> "outgoing",
                          message_content |-> "reply",
                          timestamp |-> Len(conversations) + 2,
                          ai_strategy |-> "consultivo"]
         IN  /\ turn' = HistoryTurn(incoming, history, outcome)
             /\ customers' = pendingCustomers
             /\ conversations' = IF outcome = "sent"
                                 THEN Append(flushed, outgoing)
                                 ELSE flushed
             /\ last' = Call("process_incoming_message", "consultivo", "none",
                             IF outcome = "sent" THEN "True" ELSE "False")
    /\ UNCHANGED <<learner, ledger, sales, webhooks, workers, environ,
                   ai_agent, products, lead>>

NextHistory == HandleMessage

SpecHistory == InitHistory /\ [][NextHistory]_vars

\* C33: in every turn, however many records the customer already has, the
\* last element of the history handed to the agent is the incoming record of
\* the current turn.
C33_HistoryEndsWithCurrent ==
    turn # NoTurn =>
       /\ turn.history # <<>>
       /\ turn.history[Len(turn.history)].timestamp = turn.incoming.timestamp
       /\ turn.history[Len(turn.history)].message_content
             = turn.incoming.message_content

(***************************************************************************)
(* Concurrent initialisations (reinforcement_learning.py:23-45): each      *)
(* worker builds a learner in a session of its own.  The loop checks one   *)
(* strategy name after the other against the committed rows and adds the   *)
(* missing ones to its session; the commit at line 41 writes them.         *)
(* strategy_name carries no unique constraint (models.py:74).              *)
(***************************************************************************)
InitInitialisers ==
    /\ learner = "none"
    /\ ledger = <<>>
    /\ customers = <<>>
    /\ conversations = <<>>
    /\ sales = <<>>
    /\ webhooks = NoWebhooks
    /\ last = Call("none", NoStrategy, "none", "none")
    /\ workers = [w \in Workers |-> [pc |-> "check", i |-> 1, pending |-> <<>>]]
    /\ FunnelIdle

\* reinforcement_learning.py:26-38: one round of the loop
CheckStrategy(w) ==
    /\ workers[w].pc = "check"
    /\ LET s == strategies[workers[w].i]
           pending == IF FirstRow(ledger, s) = 0
                      THEN Append(workers[w].pending, NewRow(s))
                      ELSE workers[w].pending
       IN  workers' = [workers EXCEPT ![w] =
                          [pc |-> IF workers[w].i = Len(strategies)
                                  THEN "commit" ELSE "check",
                           i |-> IF workers[w].i = Len(strategies)
                                 THEN workers[w].i ELSE workers[w].i + 1,
                           pending |-> pending]]
    /\ UNCHANGED <<learner, ledger, customers, conversations, sales, last,
                   webhooks, funnelVars>>

\* reinforcement_learning.py:40-45: commit, or rollback when it fails
CommitStrategies(w) ==
    /\ workers[w].pc = "commit"
    /\ \E fault \in {"none", "write"} :
         /\ ledger' = IF fault = "write" THEN ledger
                      ELSE ledger \o workers[w].pending
         /\ last' = Call("_initialize_strategies", NoStrategy, fault,
                         IF fault = "write" THEN "rollback" ELSE "commit")
    /\ workers' = [workers EXCEPT ![w] = [@ EXCEPT !.pc = "done",
                                                   !.pending = <<>>]]
    /\ learner' = "ready"
    /\ UNCHANGED <<customers, conversations, sales, webhooks, funnelVars>>

NextInitialisers ==
    \E w \in Workers : CheckStrategy(w) \/ CommitStrategies(w)

SpecInitialisers == InitInitialisers /\ [][NextInitialisers]_vars

\* C34: when initialisations interleave on an empty ledger and one of them
\* has committed, the ledger ends with exactly one record per strategy name.
C34_ConcurrentInitNoDuplicates ==
    (/\ \A w \in Workers : workers[w].pc = "done"
     /\ ledger # <<>>)
       => ExactlyOnePerName(ledger)

\* C35: in state awaiting_product_selection the handler returns
\* product_id_to_select = p only for a product that _handle_list_products
\* would offer, an existing product with is_active true; the id of a
\* deactivated product re-lists the products.
C35_OnlyListedProductsSelected ==
    (/\ turn.op = "generate_response"
     /\ turn.state = "awaiting_product_selection"
     /\ turn.payload.product_id_to_select # NoProduct)
       => /\ ProductExists(turn.payload.product_id_to_select)
          /\ products[turn.payload.product_id_to_select].is_active

\* C36: whenever simulate_sale answers with the success message, a Sale of
\* the customer is persisted, the customer is marked as purchased and the
\* success_count of the strategy of the customer's latest outgoing turn grew
\* by 1; whenever it answers with an error, no Sale, customer flag or ledger
\* counter changed, also when record_success rolls the shared session back.
C36_SimulateSaleAllOrNothing ==
    [][SimulateSale =>
         IF last'.result = "200"
         THEN /\ Len(sales') = Len(sales) + 1
              /\ customers'[sales'[Len(sales')]].purchased
              /\ HasRow(ledger, last'.strategy)
              /\ HasRow(ledger', last'.strategy)
              /\ Row(ledger', last'.strategy).success_count =
                    Row(ledger, last'.strategy).success_count + 1
         ELSE UNCHANGED <<ledger, customers, sales>>]_vars

\* C37: record_success called with a customer id that names no customer, or
\* with a strategy name that has no record, changes no field of any strategy
\* record and does not raise to the caller.
C37_RecordSuccessNoOpOnBadInput ==
    \A customer_id \in CustomerArgs, strategy \in StrategyArgs,
       fault \in {"none", "write"} :
        (customer_id \notin 1..Len(customers) \/ ~HasRow(ledger, strategy)) =>
            LET r == record_success(ledger, customers, conversations,
                                    customer_id, strategy, fault)
            IN  /\ r.ledger = ledger
                /\ r.session # Raised

\* record_success ran for a known customer with a strategy name that has no
\* record, next to the records of the other strategies
C37_Witness ==
    /\ last.op = "record_success"
    /\ last.strategy = "desconhecida"
    /\ last.fault = "none"
    /\ last.result = "commit"
    /\ customers # <<>>
    /\ ledger # <<>>

(***************************************************************************)
(* POST /webhook (routes.py:141-175) around process_incoming_message.      *)
(***************************************************************************)
MaxWebhooks == 2        \* webhook records stored

\* models.py:84-89
WebhookRecord(body, processed, error_message) ==
    [webhook_data |-> body, processed |-> processed,
     error_message |-> error_message]

\* the JSON bodies posted: what parse_webhook_data reads of them
WebhookBody(entry, changes, field, messages, contacts) ==
    [entry |-> entry, changes |-> changes, field |-> field,
     messages |-> messages, contacts |-> contacts]

TextMessage ==
    [from |-> "5511900000001", id |-> "wamid.1", type |-> "text",
     body |-> "oi"]

WebhookBodies ==
    { WebhookBody(FALSE, FALSE, Null, <<>>, <<>>),
      WebhookBody(TRUE, FALSE, Null, <<>>, <<>>),
      WebhookBody(TRUE, TRUE, "statuses", <<>>, <<>>),
      WebhookBody(TRUE, TRUE, "messages", <<>>, <<>>),
      WebhookBody(TRUE, TRUE, "messages", <<TextMessage>>, <<>>),
      WebhookBody(TRUE, TRUE, "messages", <<TextMessage>>, <<"Ana">>),
      WebhookBody(TRUE, TRUE, "messages",
                  <<[TextMessage EXCEPT !.type = "image"]>>, <<"Ana">>) }

\* parse_webhook_data returned None
NoMessageData == [message_type |-> Null]

\* whatsapp_handler.py:25-58; an empty contacts list makes [0] raise, which
\* the except at line 56 turns into None
parse_webhook_data(webhook_data) ==
    IF ~webhook_data.entry THEN NoMessageData
    ELSE IF ~webhook_data.changes THEN NoMessageData
    ELSE IF webhook_data.field # "messages" THEN NoMessageData
    ELSE IF webhook_data.messages = <<>> THEN NoMessageData
    ELSE IF webhook_data.contacts = <<>> THEN NoMessageData
    ELSE LET message == webhook_data.messages[1]
         IN  [from |-> message.from,
              message_id |-> message.id,
              message_type |-> message.type,
              text |-> IF message.type = "text" THEN message.body ELSE "",
              profile_name |-> webhook_data.contacts[1]]

\* the route with the record left pending until the end of the request
WebhookPost_uncommitted ==
    /\ learner = "ready"
    /\ Len(webhooks.records) < MaxWebhooks
    /\ \E body \in WebhookBodies, fault \in {"none", "store", "update"} :
         LET message_data == parse_webhook_data(body)
             stored == Append(webhooks.records, WebhookRecord(body, FALSE, Null))
             id == Len(stored)
         IN  IF fault = "store"
             THEN /\ webhooks' = [webhooks EXCEPT !.answer = "Error"]
                  /\ last' = Call("whatsapp_webhook", NoStrategy, fault, "500")
                  /\ UNCHANGED <<learner, ledger, customers, conversations,
                                 sales, workers, funnelVars>>
             ELSE IF message_data = NoMessageData
             THEN /\ webhooks' =
                       IF fault = "update"
                       THEN [records |-> webhooks.records, answer |-> "Error"]
                       ELSE [records |->
                               [stored EXCEPT ![id] = WebhookRecord(
                                   body, TRUE, "No valid message data found")],
                             answer |-> "OK"]
                  /\ last' = Call("whatsapp_webhook", NoStrategy, fault,
                                  IF fault = "update" THEN "500" ELSE "200")
                  /\ UNCHANGED <<learner, ledger, customers, conversations,
                                 sales, workers, funnelVars>>
             ELSE /\ process_incoming_message
                  /\ webhooks' =
                       IF fault = "update"
                       THEN [records |-> webhooks.records, answer |-> "Error"]
                       ELSE IF last'.result = "False"
                       THEN [records |-> webhooks.records, answer |-> "OK"]
                       ELSE [records |->
                               [stored EXCEPT ![id] = WebhookRecord(
                                   body, TRUE, Null)],
                             answer |-> "OK"]

\* routes.py:141-175.  "store" is a failure of the commit at line 152,
\* "update" a failure of the commit at line 158 or 171.
WebhookPost ==
    /\ learner = "ready"
    /\ Len(webhooks.records) < MaxWebhooks
    /\ \E body \in WebhookBodies, fault \in {"none", "store", "update"} :
         LET message_data == parse_webhook_data(body)
             \* lines 147-152: the record is committed before the parsing
             stored == Append(webhooks.records, WebhookRecord(body, FALSE, Null))
             id == Len(stored)
         IN  IF fault = "store"
             THEN /\ webhooks' = [webhooks EXCEPT !.answer = "Error"]
                  /\ last' = Call("whatsapp_webhook", NoStrategy, fault, "500")
                  /\ UNCHANGED <<learner, ledger, customers, conversations,
                                 sales, workers, funnelVars>>
             ELSE IF message_data = NoMessageData
             THEN \* lines 155-160
                  /\ webhooks' =
                       IF fault = "update"
                       THEN [records |-> stored, answer |-> "Error"]
                       ELSE [records |->
                               [stored EXCEPT ![id] = WebhookRecord(
                                   body, TRUE, "No valid message data found")],
                             answer |-> "OK"]
                  /\ last' = Call("whatsapp_webhook", NoStrategy, fault,
                                  IF fault = "update" THEN "500" ELSE "200")
                  /\ UNCHANGED <<learner, ledger, customers, conversations,
                                 sales, workers, funnelVars>>
             ELSE \* lines 163-173: a rollback inside process_incoming_message
                  \* acts on what is pending, the record is committed
                  /\ process_incoming_message
                  /\ webhooks' =
                       IF fault = "update"
                       THEN [records |-> stored, answer |-> "Error"]
                       ELSE [records |->
                               [stored EXCEPT ![id] = WebhookRecord(
                                   body, TRUE,
                                   IF last'.result = "False"
                                   THEN "Failed to process message"
                                   ELSE Null)],
                             answer |-> "OK"]

\* app.py and routes.py:18-23: the handlers are built, the tables are empty
InitWebhook ==
    /\ learner = "ready"
    /\ ledger = AddMissing(<<>>, 1)
    /\ customers = <<>>
    /\ conversations = <<>>
    /\ sales = <<>>
    /\ webhooks = NoWebhooks
    /\ last = Call("none", NoStrategy, "none", "none")
    /\ workers = <<>>
    /\ FunnelIdle

NextWebhook == WebhookPost

SpecWebhook == InitWebhook /\ [][NextWebhook]_vars

\* C38: every POST /webhook answered 'OK' leaves its stored record with
\* processed = true, and the record has an error_message exactly when no
\* valid message data was found or process_incoming_message returned False;
\* a rollback inside process_incoming_message never removes the record.
C38_WebhookBookkeeping ==
    [][(webhooks' # webhooks /\ webhooks'.answer = "OK") =>
         LET id == Len(webhooks.records) + 1
         IN  /\ Len(webhooks'.records) = id
             /\ SubSeq(webhooks'.records, 1, id - 1) = webhooks.records
             /\ webhooks'.records[id].processed
             /\ (webhooks'.records[id].error_message # Null) <=>
                   \/ parse_webhook_data(webhooks'.records[id].webhook_data)
                          = NoMessageData
                   \/ /\ last'.op = "process_incoming_message"
                      /\ last'.result = "False"]_vars

\* a POST whose message was rolled back inside process_incoming_message was
\* answered 'OK' and its record is stored with the failure noted
C38_Witness ==
    /\ webhooks.answer = "OK"
    /\ last.op = "process_incoming_message"
    /\ last.result = "False"
    /\ customers = <<>>
    /\ Len(webhooks.records) >= 1
    /\ webhooks.records[Len(webhooks.records)].error_message =
          "Failed to process message"

(***************************************************************************)
(* Several messages in a row (routes.py:177-278): the second one finds the *)
(* customer of the first.                                                  *)
(***************************************************************************)
MaxTurnRecords == 4     \* conversation records stored by the turns

ProcessTurn ==
    /\ process_incoming_message_upto(MaxTurnRecords)
    /\ UNCHANGED webhooks

NextTurns == ProcessTurn

SpecTurns == InitWebhook /\ [][NextTurns]_vars

IncomingOf(convs, id) ==
    Cardinality({i \in 1..Len(convs) :
                    /\ convs[i].customer_id = id
                    /\ convs[i].message_type = "incoming"})

InteractionsMatchLog ==
    \A id \in 1..Len(customers) :
        customers[id].total_interactions = IncomingOf(conversations, id)

InteractionsNeverDecrease ==
    \A id \in 1..Len(customers) :
        /\ id <= Len(customers')
        /\ customers[id].total_interactions
              <= customers'[id].total_interactions

\* C39: in every persisted state reached by process_incoming_message calls
\* (successful, send-failed or raising) each customer's total_interactions
\* equals the number of persisted incoming conversation records of that
\* customer, and it never decreases.
C39_InteractionCounter ==
    /\ []InteractionsMatchLog
    /\ [][InteractionsNeverDecrease]_vars

\* a known customer sent a second message and both are counted
C39_Witness ==
    /\ last.op = "process_incoming_message"
    /\ Len(customers) = 1
    /\ customers[1].total_interactions = 2
    /\ IncomingOf(conversations, 1) = 2

(***************************************************************************)
(* GET /webhook (routes.py:129-139): the query parameters are drawn and    *)
(* the verification is applied to them once.                               *)
(***************************************************************************)
\* whatsapp_handler.py:14, the default of WHATSAPP_VERIFY_TOKEN
verify_token == "whatsapp_verify_token_2024"

\* whatsapp_handler.py:17-23
verify_webhook(mode, token, challenge) ==
    IF mode = "subscribe" /\ token = verify_token THEN challenge ELSE Null

\* request.args.get(..., ''): a missing parameter reads as the empty string
Modes == {"subscribe", "unsubscribe", "Subscribe", ""}
Tokens == {verify_token, "WHATSAPP_VERIFY_TOKEN_2024", "wrong", ""}
Challenges == {"1158201444", "0", "abc", ""}

\* Python truth value of an Optional[str]
Truthy(s) == s # Null /\ s # ""

Verification(mode, token, challenge, status, body) ==
    [op |-> "whatsapp_webhook", mode |-> mode, token |-> token,
     challenge |-> challenge, status |-> status, body |-> body]

\* the tables before any message, or after one message whose reply failed
InitVerify ==
    /\ learner = "ready"
    /\ ledger = AddMissing(<<>>, 1)
    /\ \/ /\ customers = <<>>
          /\ conversations = <<>>
          /\ webhooks = NoWebhooks
       \/ /\ customers = <<[whatsapp_number |-> "5511900000001",
                            total_interactions |-> 1, purchased |-> FALSE]>>
          /\ conversations = <<[customer_id |-> 1, message_type |-> "incoming",
                                ai_strategy |-> NoStrategy,
                                sentiment_score |-> <<1, 2>>]>>
          /\ webhooks =
                [records |->
                    <<WebhookRecord(
                        WebhookBody(TRUE, TRUE, "messages", <<TextMessage>>,
                                    <<"Ana">>),
                        TRUE, "Failed to process message")>>,
                 answer |-> "OK"]
    /\ sales = <<>>
    /\ last = Call("none", NoStrategy, "none", "none")
    /\ workers = <<>>
    /\ FunnelIdle

\* routes.py:129-139
WebhookGet ==
    /\ last.op = "none"
    /\ \E mode \in Modes, token \in Tokens, challenge \in Challenges :
         LET verification_result == verify_webhook(mode, token, challenge)
         IN  last' = IF Truthy(verification_result)
                     THEN Verification(mode, token, challenge, "200",
                                       verification_result)
                     ELSE Verification(mode, token, challenge, "403",
                                       "Verification failed")
    /\ UNCHANGED <<learner, ledger, customers, conversations, sales, webhooks,
                   workers, funnelVars>>

NextVerify == WebhookGet

SpecVerify == InitVerify /\ [][NextVerify]_vars

\* C40: GET /webhook answers with the challenge and status 200 if and only
\* if hub.mode is "subscribe" and hub.verify_token is the configured token,
\* for every challenge, the empty one included, and answers 403 otherwise.
C40_VerificationIffValid ==
    last.op = "whatsapp_webhook" =>
        IF last.mode = "subscribe" /\ last.token = verify_token
        THEN last.status = "200" /\ last.body = last.challenge
        ELSE last.status = "403"

====
